---- MODULE Spec2Model ----
(***************************************************************************)
(* Summarization orchestration of comp_aplicada_final:                     *)
(*   services/langchainService.js  generateSingleSummary,                  *)
(*        generateMapReduceSummary, generateMultipleSummary,               *)
(*        generateHierarchicalSummary, testConnection                      *)
(*   config/langchain.js           isConfigured                            *)
(*   controllers/summaryController.js  createSingleSummary,                *)
(*        createMultipleSummary, getApiStatus                              *)
(*   config/database.js            findDocumentById, createSummary,        *)
(*        updateDocument, deleteDocument, findSummaryById, deleteSummary   *)
(*   services/pdfService.js        estimateTokens                          *)
(*   middlewares/auth.js           authenticate                            *)
(*   controllers/documentController.js  getDocuments, getDocument,         *)
(*        downloadDocumentText, deleteDocument, deleteMultipleDocuments,   *)
(*        reprocessDocument, extractTextAsync, uploadDocument,             *)
(*        uploadMultipleDocuments                                          *)
(*   server.js                     GET /api/debug,                         *)
(*        POST /api/debug/reprocess-stuck                                  *)
(*   controllers/authController.js register, updateProfile                 *)
(*   public/js/dashboard.js        the documents list and its selection    *)
(*                                                                         *)
(* A text is represented by its length in characters (the only thing the   *)
(* routing code reads of it); a model output is a sequence of characters,  *)
(* so that trim() and length are computed, not assumed.  A request runs    *)
(* from one await to the next in one step; the model provider, the text    *)
(* splitter and the clock are the environment.                             *)
(***************************************************************************)
EXTENDS Integers, Sequences, FiniteSets, Bags, TLC

VARIABLES
    envKey,     \* process.env.OPENAI_API_KEY
    documents,  \* data.documents, as a function from document id
    summaries,  \* data.summaries
    nextId,     \* number of ids handed out by uuidv4()
    req,        \* the requests in flight, by request slot
    users,      \* data.users, as a function from user id
    extracting, \* the extractTextAsync calls awaiting pdf-parse, a bag of document ids
    pure,       \* the text and the results of the estimate functions applied to it
    page        \* the dashboard page: its documents list and selectedDocuments

vars == <<envKey, documents, summaries, nextId, req, users, extracting, pure, page>>

----------------------------------------------------------------------------
(* Bounds *)

MaxDocs == 3          \* longest documents / documentIds array of a request
MaxTextLen == 40      \* longest of the short texts the estimate functions are applied to
MaxIds == 2           \* longest ids array of a bulk delete
MaxUploads == 2       \* most documents uploaded in one behaviour

----------------------------------------------------------------------------
(* Strings *)

WS == " "

RECURSIVE TrimLeft(_)
TrimLeft(s) ==
    IF s /= <<>> /\ Head(s) = WS THEN TrimLeft(Tail(s)) ELSE s

RECURSIVE TrimRight(_)
TrimRight(s) ==
    IF s /= <<>> /\ s[Len(s)] = WS THEN TrimRight(SubSeq(s, 1, Len(s) - 1)) ELSE s

\* String.prototype.trim
Trim(s) == TrimRight(TrimLeft(s))

\* Math.ceil(a / b) for a >= 0, b > 0
CeilDiv(a, b) == (a + b - 1) \div b

\* number of decimal digits of a positive integer, as `${n}` prints it
RECURSIVE Digits(_)
Digits(n) == IF n < 10 THEN 1 ELSE 1 + Digits(n \div 10)

----------------------------------------------------------------------------
(* Configuration: config/langchain.js *)

Unset == ""
Placeholder == "sk-your-openai-api-key-here"
RealKey == "sk-live"

DEFAULT_MODEL == "gpt-3.5-turbo"

\* an option or body field the caller left out
Undefined == "undefined"

isConfigured_NoPlaceholderCheck == envKey /= Unset

isConfigured == envKey /= Unset /\ envKey /= Placeholder

\* `x || dflt` and the destructuring default `x = dflt`, for a missing x
OrDefault(x, dflt) == IF x = Undefined THEN dflt ELSE x

----------------------------------------------------------------------------
(* Inputs *)

Users == {"u1", "u2"}

\* extractedText: null
NullText == -1

\* pageCount: null
NullPages == -1

\* errorMessage: null
NullMessage == "null"

\* error.message of a failed loadAndExtractPDF
LoadError == "Failed to load PDF: bad XRef entry"

\* what the model provider answers
Outputs == { <<"r", "e", "s", "u", "m">>, <<" ", "o", "k", "a", "y">> }

\* error.message of a failed provider call
ProviderErrors == {"429 rate limit", "socket hang up"}

\* Date.now() - startTime
Durations == {7, 30}

ModelOpts == {Undefined, "gpt-4o"}

\* texts handed to generateSingleSummary directly, by length
Texts == {0, 200, 48000, 48001}

\* documents handed to generateMultipleSummary directly
CoreDocs == { [name |-> "a.pdf", text |-> 23972],
              [name |-> "b.pdf", text |-> 23973],
              [name |-> "c.pdf", text |-> 48001] }

\* the document store the summary routes read
StoredDocuments ==
    [ d1 |-> [userId |-> "u1", status |-> "processed",  extractedText |-> 23972,    pageCount |-> 2, errorMessage |-> NullMessage, originalName |-> "a.pdf"],
      d2 |-> [userId |-> "u1", status |-> "processed",  extractedText |-> 23973,    pageCount |-> 2, errorMessage |-> NullMessage, originalName |-> "b.pdf"],
      d3 |-> [userId |-> "u1", status |-> "processed",  extractedText |-> 48001,    pageCount |-> 2, errorMessage |-> NullMessage, originalName |-> "c.pdf"],
      d4 |-> [userId |-> "u1", status |-> "processing", extractedText |-> NullText, pageCount |-> NullPages, errorMessage |-> NullMessage, originalName |-> "d.pdf"],
      d5 |-> [userId |-> "u1", status |-> "processed",  extractedText |-> 0,        pageCount |-> 2, errorMessage |-> NullMessage, originalName |-> "e.pdf"],
      d6 |-> [userId |-> "u2", status |-> "processed",  extractedText |-> 200,      pageCount |-> 2, errorMessage |-> NullMessage, originalName |-> "f.pdf"],
      \* reprocessed after a first extraction, and failed: the old text stays
      d7 |-> [userId |-> "u1", status |-> "error",      extractedText |-> 200,      pageCount |-> 2, errorMessage |-> LoadError, originalName |-> "g.pdf"] ]

\* document ids a request may name; "d0" names no document
RequestIds == DOMAIN StoredDocuments \cup {"d0"}

SeqsUpTo(S, n) == UNION { [1..k -> S] : k \in 0..n }

\* the user store; u3 has been deactivated
StoredUsers ==
    [ u1 |-> [isActive |-> TRUE],
      u2 |-> [isActive |-> TRUE],
      u3 |-> [isActive |-> FALSE] ]

\* a function not applied yet
NotApplied == -2

\* no text under estimation
NoPage == [documents |-> <<>>, selectedDocuments |-> {}]
NoPure == [text |-> 0, est |-> NotApplied, single |-> NotApplied, multiple |-> NotApplied]

----------------------------------------------------------------------------
(* Requests *)

NoResult == [ok |-> FALSE, message |-> <<>>, summary |-> <<>>, tokensUsed |-> 0,
             model |-> "", processingTime |-> 0, method |-> "", chunks |-> 0,
             documentsCount |-> 0]

NoResponse == [status |-> 0, error |-> <<>>, summaryId |-> 0]

\* connectionTest: null
NoProbe == [tested |-> FALSE, success |-> FALSE, error |-> "", model |-> "", response |-> <<>>]

\* the Authorization header: its scheme, what jwt.verify makes of its token
\* (the name of the error it throws, or "ok") and the token's userId
Header(scheme, verify, userId) == [scheme |-> scheme, verify |-> verify, userId |-> userId]

\* no Authorization header
NoHeader == Header("none", "none", "")

IdleReq == [ entry |-> "none", pc |-> "idle",
             auth |-> NoHeader, ran |-> FALSE, shown |-> {}, deletedCount |-> 0,
             userId |-> "", body |-> <<>>, docIds |-> <<>>, title |-> <<>>,
             modelOpt |-> Undefined,
             docs |-> <<>>, text |-> 0, est |-> 0, model |-> "", maxTokens |-> 0,
             inHier |-> FALSE, idx |-> 0, indiv |-> <<>>, hmodel |-> "", hmaxTokens |-> 0,
             chunks |-> 0, calls |-> <<>>, output |-> <<>>,
             result |-> NoResult, response |-> NoResponse, probe |-> NoProbe ]

\* the request's history: "single" (generateSingleSummary entered, for
\* document doc of the hierarchical loop, 0 outside it), "invoke" (a chain or
\* model invoked), "resolve" and "reject" (it settled; info: the error message)
Ev(ev, kind, doc, info) == [ev |-> ev, kind |-> kind, doc |-> doc, info |-> info]

Log(q, ev, kind) == [q EXCEPT !.calls = Append(@, Ev(ev, kind, q.idx, ""))]

\* the invocation resolves with this text
LogResolve(q, kind, out) == [Log(q, "resolve", kind) EXCEPT !.output = out]

LogReject(q, kind, e) == [q EXCEPT !.calls = Append(@, Ev("reject", kind, q.idx, e))]

\* a rejected promise / thrown Error with this message
Err(msg) == [NoResult EXCEPT !.message = msg]

\* the entry function's promise settles
Finish(q, outcome) == [q EXCEPT !.pc = "returned", !.result = outcome]

----------------------------------------------------------------------------
(* services/langchainService.js: the summarization core *)

\* the estimate above which a text is not sent in one prompt
TokenThreshold == 12000

\* the estimate rounded down instead of up
EstimateOf_Floor(len) == len \div 4

\* Math.ceil(text.length / 4)
EstimateOf(len) == CeilDiv(len, 4)

\* the estimate rounded to the nearest integer
estimateTokens_Round(text) ==
    IF text = NullText \/ text = 0 THEN 0 ELSE (text + 2) \div 4

\* pdfService.estimateTokens(text): `!text` holds of a missing text and of ''
estimateTokens(text) ==
    IF text = NullText \/ text = 0 THEN 0 ELSE CeilDiv(text, 4)

Success(summary, tokensUsed, model, duration, method, chunks, count) ==
    [ok |-> TRUE, message |-> <<>>, summary |-> summary, tokensUsed |-> tokensUsed,
     model |-> model, processingTime |-> duration, method |-> method,
     chunks |-> chunks, documentsCount |-> count]

\* a catch block that answers with what it has instead of throwing
MultiCatch_Partial(q, msg) ==
    Finish(q, Success(<<>>, 0, q.model, 0, "stuff", 0, Len(q.docs)))

\* generateMultipleSummary's catch block
MultiCatch(q, msg) ==
    Finish(q, Err(<<"Failed to generate integrated summary: ">> \o msg))

\* generateSingleSummary rejects with msg: to its caller, or, inside the
\* hierarchical loop (which has no try), on to generateMultipleSummary's catch
SingleThrow(q, msg) ==
    IF q.inHier THEN MultiCatch(q, msg) ELSE Finish(q, Err(msg))

\* a catch block that invokes the chain a second time before giving up
SingleCatch_RetryOnce(q, msg) ==
    IF q.pc = "stuff_invoke" /\ Len(SelectSeq(q.calls, LAMBDA e : e.ev = "reject")) = 1
    THEN Log(q, "invoke", "stuff")
    ELSE SingleThrow(q, <<"Failed to generate summary: ">> \o msg)

\* generateSingleSummary's catch block
SingleCatch(q, msg) ==
    SingleThrow(q, <<"Failed to generate summary: ">> \o msg)

\* the documents of the hierarchical loop sent in one prompt whatever their size
CallSingle_StuffInLoop(q0, text, modelOpt, maxTokensOpt) ==
    LET q == Log(q0, "single", "") IN
    IF ~isConfigured
    THEN SingleThrow(q, <<"OpenAI API key is not configured">>)
    ELSE LET estimatedTokens == EstimateOf(text)
             q1 == [q EXCEPT !.text = text,
                             !.model = OrDefault(modelOpt, DEFAULT_MODEL),
                             !.maxTokens = maxTokensOpt,
                             !.est = estimatedTokens]
         IN  IF estimatedTokens > TokenThreshold /\ ~q0.inHier
             THEN [q1 EXCEPT !.pc = "mr_split"]
             ELSE [Log(q1, "invoke", "stuff") EXCEPT !.pc = "stuff_invoke"]

\* generateSingleSummary(text, {model, maxTokens}), up to its first await
CallSingle(q0, text, modelOpt, maxTokensOpt) ==
    LET q == Log(q0, "single", "") IN
    IF ~isConfigured
    THEN SingleThrow(q, <<"OpenAI API key is not configured">>)
    ELSE LET estimatedTokens == EstimateOf(text)
             q1 == [q EXCEPT !.text = text,
                             !.model = OrDefault(modelOpt, DEFAULT_MODEL),
                             !.maxTokens = maxTokensOpt,
                             !.est = estimatedTokens]
         IN  IF estimatedTokens > TokenThreshold
             THEN \* generateMapReduceSummary: await splitter.splitText(text)
                  [q1 EXCEPT !.pc = "mr_split"]
             ELSE \* await chain.invoke({ text })
                  [Log(q1, "invoke", "stuff") EXCEPT !.pc = "stuff_invoke"]

\* the chunk counts a text of this length can split into (4000 characters a
\* chunk at most)
ChunkCounts(len) == { CeilDiv(len, 4000), CeilDiv(len, 4000) + 1 }

HeaderLen(prefix, i, name) ==
    Len(prefix) + Digits(i) + Len(": ") + Len(name) + Len(" ---") + 1

\* length of documents.map(`--- Documento ${index + 1}: ${doc.name} ---\n${doc.text}`).join('\n\n')
RECURSIVE LabelledLen(_, _, _)
LabelledLen(prefix, items, i) ==
    IF i > Len(items) THEN 0
    ELSE HeaderLen(prefix, i, items[i].name) + items[i].len
         + (IF i < Len(items) THEN 2 ELSE 0)
         + LabelledLen(prefix, items, i + 1)

\* the combined text without the document headers
DocumentsTextLen_NoHeaders(docs) ==
    LabelledLen("", [i \in 1..Len(docs) |-> [name |-> "", len |-> docs[i].text]], 1)
    - Len(docs) * HeaderLen("", 1, "")

DocumentsTextLen(docs) ==
    LabelledLen("--- Documento ",
                [i \in 1..Len(docs) |-> [name |-> docs[i].name, len |-> docs[i].text]], 1)

\* the individual summaries counted without their headers
CombinedTextLen_NoLabels(indiv) ==
    LabelledLen("", [i \in 1..Len(indiv) |-> [name |-> "", len |-> Len(indiv[i].summary)]], 1)
    - Len(indiv) * HeaderLen("", 1, "")

CombinedTextLen(indiv) ==
    LabelledLen("--- Resumo do Documento ",
                [i \in 1..Len(indiv) |-> [name |-> indiv[i].name, len |-> Len(indiv[i].summary)]], 1)

\* the loop stopping one document short
HierStep_SkipLast(q) ==
    IF Len(q.indiv) + 1 < Len(q.docs)
    THEN LET i == Len(q.indiv) + 1 IN
         CallSingle([q EXCEPT !.idx = i], q.docs[i].text, q.hmodel, 1000)
    ELSE [Log([q EXCEPT !.idx = 0], "invoke", "combine")
            EXCEPT !.pc = "hier_combine"]

\* one turn of `for (const doc of documents)` in generateHierarchicalSummary,
\* or, after the last document, the combine call
HierStep(q) ==
    IF Len(q.indiv) < Len(q.docs)
    THEN LET i == Len(q.indiv) + 1 IN
         CallSingle([q EXCEPT !.idx = i], q.docs[i].text, q.hmodel, 1000)
    ELSE [Log([q EXCEPT !.idx = 0], "invoke", "combine")
            EXCEPT !.pc = "hier_combine"]

\* the individual summaries collected newest first
SingleReturn_Prepend(q, res) ==
    IF q.inHier
    THEN HierStep([q EXCEPT !.indiv = <<[name |-> q.docs[q.idx].name,
                                         summary |-> res.summary]>> \o @])
    ELSE Finish(q, res)

\* generateSingleSummary returns res
SingleReturn(q, res) ==
    IF q.inHier
    THEN HierStep([q EXCEPT !.indiv = Append(@, [name |-> q.docs[q.idx].name,
                                                  summary |-> res.summary])])
    ELSE Finish(q, res)

\* generateMultipleSummary(documents, {model}), up to its first await
CallMultiple(q0, docs, modelOpt) ==
    LET q == [q0 EXCEPT !.docs = docs] IN
    IF ~isConfigured
    THEN Finish(q, Err(<<"OpenAI API key is not configured">>))
    ELSE IF Len(docs) = 0
    THEN Finish(q, Err(<<"No documents provided">>))
    ELSE LET totalTokens == EstimateOf(DocumentsTextLen(docs))
             q1 == [q EXCEPT !.model = OrDefault(modelOpt, DEFAULT_MODEL),
                             !.maxTokens = 3000,
                             !.est = totalTokens]
         IN  IF totalTokens > TokenThreshold
             THEN \* generateHierarchicalSummary(documents, options)
                  HierStep([q1 EXCEPT !.inHier = TRUE, !.indiv = <<>>,
                                      !.hmodel = OrDefault(modelOpt, DEFAULT_MODEL),
                                      !.hmaxTokens = 2000])
             ELSE [Log(q1, "invoke", "multi_stuff") EXCEPT !.pc = "multi_invoke"]

----------------------------------------------------------------------------
(* controllers/summaryController.js and config/database.js *)

\* db.createSummary's record, as createSingleSummary / createMultipleSummary
\* fill it from the core's result
SummaryRecord(q, id) ==
    [ id |-> id, userId |-> q.userId, title |-> q.title,
      content |-> q.result.summary,
      type |-> IF q.entry = "createSingle" THEN "single" ELSE "multiple",
      documentIds |-> q.docIds,
      model |-> q.result.model, tokensUsed |-> q.result.tokensUsed,
      processingTime |-> q.result.processingTime, method |-> q.result.method ]

Respond(q, status, error) ==
    [q EXCEPT !.pc = "done", !.response = [status |-> status, error |-> error, summaryId |-> 0]]

\* the record written whatever the core's outcome
Settle_PersistOnError(r, q) ==
    IF q.pc /= "returned"
    THEN /\ req' = [req EXCEPT ![r] = q]
         /\ UNCHANGED <<summaries, nextId>>
    ELSE IF q.entry \in {"createSingle", "createMultiple"}
    THEN /\ summaries' = Append(summaries, SummaryRecord(q, nextId + 1))
         /\ nextId' = nextId + 1
         /\ req' = [req EXCEPT ![r] =
                      IF q.result.ok
                      THEN [q EXCEPT !.pc = "done",
                                     !.response = [status |-> 201, error |-> <<>>,
                                                   summaryId |-> nextId + 1]]
                      ELSE Respond(q, 500, q.result.message)]
    ELSE /\ req' = [req EXCEPT ![r] = [q EXCEPT !.pc = "done"]]
         /\ UNCHANGED <<summaries, nextId>>

\* a store that writes back the snapshot it read when the request arrived,
\* with the new record added
Settle_StaleWrite(r, q) ==
    IF q.pc /= "returned"
    THEN /\ req' = [req EXCEPT ![r] = q]
         /\ UNCHANGED <<summaries, nextId>>
    ELSE IF q.entry \in {"createSingle", "createMultiple"}
    THEN IF q.result.ok
         THEN /\ summaries' = <<SummaryRecord(q, nextId + 1)>>
              /\ nextId' = nextId + 1
              /\ req' = [req EXCEPT ![r] =
                           [q EXCEPT !.pc = "done",
                                     !.response = [status |-> 201, error |-> <<>>,
                                                   summaryId |-> nextId + 1]]]
         ELSE /\ req' = [req EXCEPT ![r] = Respond(q, 500, q.result.message)]
              /\ UNCHANGED <<summaries, nextId>>
    ELSE /\ req' = [req EXCEPT ![r] = [q EXCEPT !.pc = "done"]]
         /\ UNCHANGED <<summaries, nextId>>

\* what follows `await generateSingleSummary(...)` / `await
\* generateMultipleSummary(...)` in the caller once the core has settled: the
\* controllers create the record and answer 201, or answer 500 from their catch
Settle(r, q) ==
    IF q.pc /= "returned"
    THEN /\ req' = [req EXCEPT ![r] = q]
         /\ UNCHANGED <<summaries, nextId>>
    ELSE IF q.entry \in {"createSingle", "createMultiple"}
    THEN IF q.result.ok
         THEN /\ summaries' = Append(summaries, SummaryRecord(q, nextId + 1))
              /\ nextId' = nextId + 1
              /\ req' = [req EXCEPT ![r] =
                           [q EXCEPT !.pc = "done",
                                     !.response = [status |-> 201, error |-> <<>>,
                                                   summaryId |-> nextId + 1]]]
         ELSE /\ req' = [req EXCEPT ![r] = Respond(q, 500, q.result.message)]
              /\ UNCHANGED <<summaries, nextId>>
    ELSE /\ req' = [req EXCEPT ![r] = [q EXCEPT !.pc = "done"]]
         /\ UNCHANGED <<summaries, nextId>>

\* the request of slot r has not arrived yet
Free(r) == req[r].pc = "idle"

New(entry) == [IdleReq EXCEPT !.entry = entry]

\* db.findDocumentById
FindDocumentById(id) ==
    IF id \in DOMAIN documents THEN documents[id] ELSE [userId |-> "", status |-> "missing",
                                                       extractedText |-> NullText,
                                                       pageCount |-> NullPages,
                                                       errorMessage |-> NullMessage,
                                                       originalName |-> ""]

\* a direct call of the exported generateSingleSummary(text, options)
GenerateSingleSummary(r) ==
    /\ Free(r)
    /\ \E text \in Texts, modelOpt \in ModelOpts :
          Settle(r, CallSingle(New("genSingle"), text, modelOpt, 2000))
    /\ UNCHANGED <<envKey, documents, users, extracting, pure, page>>

\* a direct call of the exported generateMultipleSummary(documents, options)
GenerateMultipleSummary(r) ==
    /\ Free(r)
    /\ \E docs \in SeqsUpTo(CoreDocs, MaxDocs), modelOpt \in ModelOpts :
          Settle(r, CallMultiple(New("genMultiple"), docs, modelOpt))
    /\ UNCHANGED <<envKey, documents, users, extracting, pure, page>>

\* a token that verifies and carries this user id
Token(userId) == Header("Bearer", "ok", userId)

\* a request carrying this header reaches the router of the entry
Arrived(entry, header) == [New(entry) EXCEPT !.auth = header]

\* the request once authenticate has set req.userId and called next()
Authenticated(entry, header) ==
    [Arrived(entry, header) EXCEPT !.userId = header.userId, !.ran = TRUE]

\* the controller going on whatever the document's status
createSingleSummary_AnyStatus(r, q0, documentId, titleOpt, modelOpt) ==
    LET q == [q0 EXCEPT !.body = IF documentId = Undefined THEN <<>> ELSE <<documentId>>,
                        !.modelOpt = modelOpt]
        document == FindDocumentById(documentId)
    IN  IF documentId = Undefined
        THEN Settle(r, Respond(q, 400, <<"Document ID is required">>))
        ELSE IF ~isConfigured
        THEN Settle(r, Respond(q, 503, <<"OpenAI API is not configured. Please set OPENAI_API_KEY in environment.">>))
        ELSE IF document.status = "missing" \/ document.userId /= q.userId
        THEN Settle(r, Respond(q, 404, <<"Document not found">>))
        \* stored text is cleanText's output, already trimmed: blank is empty
        ELSE IF document.extractedText = NullText \/ document.extractedText = 0
        THEN Settle(r, Respond(q, 400, <<"Document has no text content to summarize">>))
        ELSE Settle(r, CallSingle(
                 [q EXCEPT !.docIds = <<documentId>>,
                           !.title = IF titleOpt = Undefined
                                     THEN <<"Summary of ", document.originalName>>
                                     ELSE <<titleOpt>>],
                 document.extractedText, OrDefault(modelOpt, DEFAULT_MODEL), 2000))

\* createSingleSummary(req, res) for the request q0 of an authenticated user,
\* up to its first await
createSingleSummary(r, q0, documentId, titleOpt, modelOpt) ==
    LET q == [q0 EXCEPT !.body = IF documentId = Undefined THEN <<>> ELSE <<documentId>>,
                        !.modelOpt = modelOpt]
        document == FindDocumentById(documentId)
    IN  IF documentId = Undefined
        THEN Settle(r, Respond(q, 400, <<"Document ID is required">>))
        ELSE IF ~isConfigured
        THEN Settle(r, Respond(q, 503, <<"OpenAI API is not configured. Please set OPENAI_API_KEY in environment.">>))
        ELSE IF document.status = "missing" \/ document.userId /= q.userId
        THEN Settle(r, Respond(q, 404, <<"Document not found">>))
        ELSE IF document.status /= "processed"
        THEN Settle(r, Respond(q, 400, <<"Document is not ready for summarization. Status: ", document.status>>))
        \* stored text is cleanText's output, already trimmed: blank is empty
        ELSE IF document.extractedText = NullText \/ document.extractedText = 0
        THEN Settle(r, Respond(q, 400, <<"Document has no text content to summarize">>))
        ELSE Settle(r, CallSingle(
                 [q EXCEPT !.docIds = <<documentId>>,
                           !.title = IF titleOpt = Undefined
                                     THEN <<"Summary of ", document.originalName>>
                                     ELSE <<titleOpt>>],
                 document.extractedText, OrDefault(modelOpt, DEFAULT_MODEL), 2000))


\* POST /api/summaries/single
CreateSingleSummary(r) ==
    /\ Free(r)
    /\ \E userId \in Users, documentId \in RequestIds \cup {Undefined},
          titleOpt \in {Undefined, "mine"}, modelOpt \in ModelOpts :
          createSingleSummary(r, Authenticated("createSingle", Token(userId)),
                              documentId, titleOpt, modelOpt)
    /\ UNCHANGED <<envKey, documents, users, extracting, pure, page>>

\* the loop taking every processed document with text, whoever owns it
Eligible_NoOwnerCheck(ids, userId) ==
    SelectSeq(ids, LAMBDA id :
        LET doc == FindDocumentById(id) IN
            /\ doc.status /= "missing"
            /\ doc.status = "processed"
            /\ doc.extractedText /= NullText /\ doc.extractedText /= 0)

\* the documents of createMultipleSummary's loop: those of the ids that are
\* the requester's, processed, and have text
Eligible(ids, userId) ==
    SelectSeq(ids, LAMBDA id :
        LET doc == FindDocumentById(id) IN
            /\ doc.status /= "missing"
            /\ doc.userId = userId
            /\ doc.status = "processed"
            /\ doc.extractedText /= NullText /\ doc.extractedText /= 0)

\* createMultipleSummary(req, res) for the request q0 of an authenticated
\* user, up to its first await
createMultipleSummary(r, q0, documentIds, titleOpt, modelOpt) ==
    LET q == [q0 EXCEPT !.body = documentIds, !.modelOpt = modelOpt]
        found == Eligible(documentIds, q.userId)
        docsForSummary == [i \in 1..Len(found) |->
                             [name |-> documents[found[i]].originalName,
                              text |-> documents[found[i]].extractedText]]
    IN  IF Len(documentIds) < 2
        THEN Settle(r, Respond(q, 400, <<"At least 2 document IDs are required">>))
        ELSE IF ~isConfigured
        THEN Settle(r, Respond(q, 503, <<"OpenAI API is not configured. Please set OPENAI_API_KEY in environment.">>))
        ELSE IF Len(found) < 2
        THEN Settle(r, Respond(q, 400, <<"At least 2 processed documents with text content are required">>))
        ELSE Settle(r, CallMultiple(
                 [q EXCEPT !.docIds = found,
                           !.title = IF titleOpt = Undefined
                                     THEN <<"Integrated Summary (", ToString(Len(found)), " documents)">>
                                     ELSE <<titleOpt>>],
                 docsForSummary, OrDefault(modelOpt, DEFAULT_MODEL)))

\* POST /api/summaries/multiple
CreateMultipleSummary(r) ==
    /\ Free(r)
    /\ \E userId \in Users, documentIds \in SeqsUpTo(RequestIds, MaxDocs),
          titleOpt \in {Undefined, "mine"}, modelOpt \in ModelOpts :
          createMultipleSummary(r, Authenticated("createMultiple", Token(userId)),
                                documentIds, titleOpt, modelOpt)
    /\ UNCHANGED <<envKey, documents, users, extracting, pure, page>>

----------------------------------------------------------------------------
(* The awaited calls settle *)

\* generateSingleSummary: chain.invoke({ text }) resolves
StuffResolve(r) ==
    /\ req[r].pc = "stuff_invoke"
    /\ \E summary \in Outputs, duration \in Durations :
          LET q == LogResolve(req[r], "stuff", summary) IN
          Settle(r, SingleReturn(q,
              Success(Trim(summary), q.est + CeilDiv(Len(summary), 4), q.model,
                      duration, "stuff", 0, 0)))
    /\ UNCHANGED <<envKey, documents, users, extracting, pure, page>>

\* generateSingleSummary: chain.invoke({ text }) rejects
StuffReject(r) ==
    /\ req[r].pc = "stuff_invoke"
    /\ \E e \in ProviderErrors :
          Settle(r, SingleCatch(LogReject(req[r], "stuff", e), <<e>>))
    /\ UNCHANGED <<envKey, documents, users, extracting, pure, page>>

\* generateMapReduceSummary: splitter.splitText(text) resolves; the chain of
\* loadSummarizationChain(llm, {type: 'map_reduce'}) is invoked on the chunks
MapReduceSplit(r) ==
    /\ req[r].pc = "mr_split"
    /\ \E n \in ChunkCounts(req[r].text) :
          Settle(r, [Log(req[r], "invoke", "map_reduce") EXCEPT !.chunks = n,
                                                               !.pc = "mr_invoke"])
    /\ UNCHANGED <<envKey, documents, users, extracting, pure, page>>

\* the map-reduce result labelled like the single-pass one
MapReduceResolve_StuffLabel(r) ==
    /\ req[r].pc = "mr_invoke"
    /\ \E text \in Outputs, duration \in Durations :
          LET q == LogResolve(req[r], "map_reduce", text) IN
          Settle(r, SingleReturn(q,
              Success(Trim(text), CeilDiv(q.text, 4) + CeilDiv(Len(text), 4), q.model,
                      duration, "stuff", q.chunks, 0)))
    /\ UNCHANGED <<envKey, documents, users, extracting, pure, page>>

\* generateMapReduceSummary: chain.invoke({ input_documents }) resolves
MapReduceResolve(r) ==
    /\ req[r].pc = "mr_invoke"
    /\ \E text \in Outputs, duration \in Durations :
          LET q == LogResolve(req[r], "map_reduce", text) IN
          Settle(r, SingleReturn(q,
              Success(Trim(text), CeilDiv(q.text, 4) + CeilDiv(Len(text), 4), q.model,
                      duration, "map_reduce", q.chunks, 0)))
    /\ UNCHANGED <<envKey, documents, users, extracting, pure, page>>

\* generateMapReduceSummary: chain.invoke rejects; generateSingleSummary's
\* `return await` is inside its try
MapReduceReject(r) ==
    /\ req[r].pc = "mr_invoke"
    /\ \E e \in ProviderErrors :
          Settle(r, SingleCatch(LogReject(req[r], "map_reduce", e), <<e>>))
    /\ UNCHANGED <<envKey, documents, users, extracting, pure, page>>

\* generateMultipleSummary: chain.invoke({ count, documents }) resolves
MultiResolve(r) ==
    /\ req[r].pc = "multi_invoke"
    /\ \E summary \in Outputs, duration \in Durations :
          LET q == LogResolve(req[r], "multi_stuff", summary) IN
          Settle(r, Finish(q,
              Success(Trim(summary), q.est + CeilDiv(Len(summary), 4), q.model,
                      duration, "stuff", 0, Len(q.docs))))
    /\ UNCHANGED <<envKey, documents, users, extracting, pure, page>>

\* generateMultipleSummary: chain.invoke rejects
MultiReject(r) ==
    /\ req[r].pc = "multi_invoke"
    /\ \E e \in ProviderErrors :
          Settle(r, MultiCatch(LogReject(req[r], "multi_stuff", e), <<e>>))
    /\ UNCHANGED <<envKey, documents, users, extracting, pure, page>>

\* generateHierarchicalSummary: chain.invoke({ summaries }) resolves
CombineResolve(r) ==
    /\ req[r].pc = "hier_combine"
    /\ \E finalSummary \in Outputs, duration \in Durations :
          LET q == LogResolve(req[r], "combine", finalSummary) IN
          Settle(r, Finish(q,
              Success(Trim(finalSummary),
                      CeilDiv(CombinedTextLen(q.indiv), 4) + CeilDiv(Len(finalSummary), 4),
                      q.hmodel, duration, "hierarchical", 0, Len(q.docs))))
    /\ UNCHANGED <<envKey, documents, users, extracting, pure, page>>

\* generateHierarchicalSummary: chain.invoke rejects, up through
\* generateMultipleSummary's catch
CombineReject(r) ==
    /\ req[r].pc = "hier_combine"
    /\ \E e \in ProviderErrors :
          Settle(r, MultiCatch(LogReject(req[r], "combine", e), <<e>>))
    /\ UNCHANGED <<envKey, documents, users, extracting, pure, page>>

----------------------------------------------------------------------------
(* The connectivity probe *)

\* String.prototype.substring(0, n)
Substring0(s, n) == SubSeq(s, 1, IF Len(s) < n THEN Len(s) ELSE n)

\* the status endpoint calling testConnection whether configured or not
TestConnection_StatusAlwaysTests(r) ==
    /\ Free(r)
    /\ \E entry \in {"testConnection", "getApiStatus"} :
          LET q == New(entry) IN
          IF ~isConfigured
          THEN Settle(r, [q EXCEPT !.pc = "done",
                                   !.response = IF entry = "getApiStatus"
                                                THEN [NoResponse EXCEPT !.status = 200]
                                                ELSE NoResponse,
                                   !.probe = [NoProbe EXCEPT !.tested = TRUE,
                                                             !.error = "API key not configured"]])
          ELSE Settle(r, [Log(q, "invoke", "probe") EXCEPT !.pc = "probe_invoke"])
    /\ UNCHANGED <<envKey, documents, users, extracting, pure, page>>

\* testConnection(), up to its await; called directly or by
\* GET /api/summaries/status, which calls it only when configured
TestConnection(r) ==
    /\ Free(r)
    /\ \E entry \in {"testConnection", "getApiStatus"} :
          LET q == New(entry) IN
          IF ~isConfigured
          THEN IF entry = "getApiStatus"
               THEN Settle(r, [q EXCEPT !.pc = "done",
                                        !.response = [NoResponse EXCEPT !.status = 200]])
               ELSE Settle(r, [q EXCEPT !.pc = "done",
                                        !.probe = [NoProbe EXCEPT !.tested = TRUE,
                                                                  !.error = "API key not configured"]])
          ELSE Settle(r, [Log(q, "invoke", "probe") EXCEPT !.pc = "probe_invoke"])
    /\ UNCHANGED <<envKey, documents, users, extracting, pure, page>>

ProbeDone(q, probe) ==
    [q EXCEPT !.pc = "done", !.probe = probe,
              !.response = IF q.entry = "getApiStatus"
                           THEN [NoResponse EXCEPT !.status = 200] ELSE NoResponse]

\* what the model answers to the probe: one answer is longer than the preview
ProbeContents == Outputs \cup { [i \in 1..51 |-> "x"] }

\* testConnection: llm.invoke('Hello') resolves
ProbeResolve(r) ==
    /\ req[r].pc = "probe_invoke"
    /\ \E content \in ProbeContents :
          Settle(r, ProbeDone(LogResolve(req[r], "probe", content),
                              [tested |-> TRUE, success |-> TRUE, error |-> "",
                               model |-> DEFAULT_MODEL,
                               response |-> Substring0(content, 50)]))
    /\ UNCHANGED <<envKey, documents, users, extracting, pure, page>>

\* the probe's failure passed on to the caller instead of being returned
ProbeReject_Throws(r) ==
    /\ req[r].pc = "probe_invoke"
    /\ \E e \in ProviderErrors :
          Settle(r, [LogReject(req[r], "probe", e) EXCEPT !.pc = "done",
                                                         !.result = Err(<<e>>)])
    /\ UNCHANGED <<envKey, documents, users, extracting, pure, page>>

\* testConnection: llm.invoke('Hello') rejects
ProbeReject(r) ==
    /\ req[r].pc = "probe_invoke"
    /\ \E e \in ProviderErrors :
          Settle(r, ProbeDone(LogReject(req[r], "probe", e),
                              [NoProbe EXCEPT !.tested = TRUE, !.error = e]))
    /\ UNCHANGED <<envKey, documents, users, extracting, pure, page>>

----------------------------------------------------------------------------
(* Specification: one request, against a store that is empty or not *)

Keys == {Unset, Placeholder, RealKey}

\* a summary an earlier request left in the store
OldSummary ==
    [ id |-> 1, userId |-> "u2", title |-> <<"Summary of ", "f.pdf">>,
      content |-> <<"o", "k", "a", "y">>, type |-> "single", documentIds |-> <<"d6">>,
      model |-> DEFAULT_MODEL, tokensUsed |-> 52, processingTime |-> 7,
      method |-> "stuff" ]

Init ==
    /\ envKey \in Keys
    /\ documents = StoredDocuments
    /\ summaries \in {<<>>, <<OldSummary>>}
    /\ nextId = Len(summaries)
    /\ req = [r \in {1} |-> IdleReq]
    /\ users = StoredUsers
    /\ extracting = EmptyBag
    /\ pure = NoPure
    /\ page = NoPage

Next ==
    \E r \in DOMAIN req :
        \/ GenerateSingleSummary(r)
        \/ GenerateMultipleSummary(r)
        \/ CreateSingleSummary(r)
        \/ CreateMultipleSummary(r)
        \/ TestConnection(r)
        \/ StuffResolve(r)
        \/ StuffReject(r)
        \/ MapReduceSplit(r)
        \/ MapReduceResolve(r)
        \/ MapReduceReject(r)
        \/ MultiResolve(r)
        \/ MultiReject(r)
        \/ CombineResolve(r)
        \/ CombineReject(r)
        \/ ProbeResolve(r)
        \/ ProbeReject(r)

Spec == Init /\ [][Next]_vars

----------------------------------------------------------------------------
(* Specification: the token estimates, each applied to one text *)

\* the texts estimated, by length; NullText is a missing text
EstimatedTexts == (0..MaxTextLen) \cup {47999, 48000, 48001, NullText}

\* estimateTokens(text)
EstimateTokens ==
    /\ pure.est = NotApplied
    /\ pure' = [pure EXCEPT !.est = estimateTokens(pure.text)]
    /\ UNCHANGED <<envKey, documents, summaries, nextId, req, users, extracting, page>>

\* generateSingleSummary's `const estimatedTokens = Math.ceil(text.length / 4)`
SingleEstimate ==
    /\ pure.single = NotApplied
    /\ pure.text /= NullText
    /\ pure' = [pure EXCEPT !.single = EstimateOf(pure.text)]
    /\ UNCHANGED <<envKey, documents, summaries, nextId, req, users, extracting, page>>

\* generateMultipleSummary's `const totalTokens = Math.ceil(documentsText.length / 4)`
MultipleEstimate ==
    /\ pure.multiple = NotApplied
    /\ pure.text /= NullText
    /\ pure' = [pure EXCEPT !.multiple = EstimateOf(pure.text)]
    /\ UNCHANGED <<envKey, documents, summaries, nextId, req, users, extracting, page>>

InitEstimate ==
    /\ envKey = RealKey
    /\ documents = StoredDocuments
    /\ summaries = <<>>
    /\ nextId = 0
    /\ req = [r \in {1} |-> IdleReq]
    /\ users = StoredUsers
    /\ extracting = EmptyBag
    /\ pure \in { [NoPure EXCEPT !.text = t] : t \in EstimatedTexts }
    /\ page = NoPage

NextEstimate == EstimateTokens \/ SingleEstimate \/ MultipleEstimate

SpecEstimate == InitEstimate /\ [][NextEstimate]_vars

----------------------------------------------------------------------------
(* Specification: two summary requests in flight at once *)

\* the document ids and id lists the two requests choose from
ConcurrentIds == {"d1", "d3", "d6"}

ConcurrentLists == { <<"d1", "d2">>, <<"d6", "d6">> }

\* POST /api/summaries/single, while another request may be in flight
ConcurrentSingle(r) ==
    /\ Free(r)
    /\ \E userId \in Users, documentId \in ConcurrentIds :
          createSingleSummary(r, Authenticated("createSingle", Token(userId)),
                              documentId, Undefined, Undefined)
    /\ UNCHANGED <<envKey, documents, users, extracting, pure, page>>

\* POST /api/summaries/multiple, while another request may be in flight
ConcurrentMultiple(r) ==
    /\ Free(r)
    /\ \E userId \in Users, documentIds \in ConcurrentLists :
          createMultipleSummary(r, Authenticated("createMultiple", Token(userId)),
                                documentIds, Undefined, Undefined)
    /\ UNCHANGED <<envKey, documents, users, extracting, pure, page>>

InitConcurrent ==
    /\ envKey = RealKey
    /\ documents = StoredDocuments
    /\ summaries = <<OldSummary>>
    /\ nextId = 1
    /\ req = [r \in {1, 2} |-> IdleReq]
    /\ users = StoredUsers
    /\ extracting = EmptyBag
    /\ pure = NoPure
    /\ page = NoPage

NextConcurrent ==
    \E r \in DOMAIN req :
        \/ ConcurrentSingle(r)
        \/ ConcurrentMultiple(r)
        \/ StuffResolve(r)
        \/ StuffReject(r)
        \/ MapReduceSplit(r)
        \/ MapReduceResolve(r)
        \/ MapReduceReject(r)
        \/ MultiResolve(r)
        \/ MultiReject(r)
        \/ CombineResolve(r)
        \/ CombineReject(r)

SpecConcurrent == InitConcurrent /\ [][NextConcurrent]_vars

----------------------------------------------------------------------------
(* middlewares/auth.js, routes/documents.js, routes/summaries.js,           *)
(* controllers/documentController.js, and server.js's debug route           *)

\* authenticate letting a deactivated user through
authenticate_NoActiveCheck(header) ==
    IF header.scheme /= "Bearer"
    THEN [status |-> 401, error |-> <<"Access denied. No token provided.">>]
    ELSE IF header.verify = "JsonWebTokenError"
    THEN [status |-> 401, error |-> <<"Invalid token.">>]
    ELSE IF header.verify = "TokenExpiredError"
    THEN [status |-> 401, error |-> <<"Token expired.">>]
    ELSE IF header.verify /= "ok"
    THEN [status |-> 500, error |-> <<"Authentication error.">>]
    ELSE IF header.userId \notin DOMAIN users
    THEN [status |-> 401, error |-> <<"Invalid token. User not found.">>]
    ELSE [status |-> 0, error |-> <<>>]

\* authenticate(req, res, next): what it responds; status 0 when it calls
\* next() instead
authenticate(header) ==
    IF header.scheme /= "Bearer"
    THEN [status |-> 401, error |-> <<"Access denied. No token provided.">>]
    ELSE IF header.verify = "JsonWebTokenError"
    THEN [status |-> 401, error |-> <<"Invalid token.">>]
    ELSE IF header.verify = "TokenExpiredError"
    THEN [status |-> 401, error |-> <<"Token expired.">>]
    ELSE IF header.verify /= "ok"
    THEN [status |-> 500, error |-> <<"Authentication error.">>]
    ELSE IF header.userId \notin DOMAIN users
    THEN [status |-> 401, error |-> <<"Invalid token. User not found.">>]
    ELSE IF ~users[header.userId].isActive
    THEN [status |-> 401, error |-> <<"User account is deactivated.">>]
    ELSE [status |-> 0, error |-> <<>>]

\* res.status(status).json(...) by a handler that leaves the stores alone
Answer(r, q, status, error) ==
    /\ req' = [req EXCEPT ![r] = Respond(q, status, error)]
    /\ UNCHANGED <<documents, summaries, nextId, extracting>>

\* router.use(authenticate) in front of a handler, whose step is `handled`
Protected(r, entry, header, handled) ==
    LET denial == authenticate(header) IN
    IF denial.status /= 0
    THEN Answer(r, Arrived(entry, header), denial.status, denial.error)
    ELSE handled

\* what a response tells of a document or of a summary: whose it is
DocItem(id) == [kind |-> "document", id |-> id, owner |-> documents[id].userId]

SumItem(i) == [kind |-> "summary", id |-> summaries[i].id, owner |-> summaries[i].userId]

\* the response body carries these
Show(q, items) == [q EXCEPT !.shown = items]

\* the document is missing or another user's
NotOwn(id, userId) ==
    id \notin DOMAIN documents \/ documents[id].userId /= userId

\* getDocuments(req, res)
getDocuments(r, q) ==
    Answer(r, Show(q, { DocItem(id) : id \in { d \in DOMAIN documents :
                                                  documents[d].userId = q.userId } }),
           200, <<>>)

\* getDocument(req, res)
getDocument(r, q0, id) ==
    LET q == [q0 EXCEPT !.body = <<id>>] IN
    IF NotOwn(id, q.userId)
    THEN Answer(r, q, 404, <<"Documento não encontrado">>)
    ELSE Answer(r, Show(q, {DocItem(id)}), 200, <<>>)

\* downloadDocumentText(req, res)
downloadDocumentText(r, q0, id) ==
    LET q == [q0 EXCEPT !.body = <<id>>] IN
    IF NotOwn(id, q.userId)
    THEN Answer(r, q, 404, <<"Documento não encontrado">>)
    ELSE IF documents[id].extractedText = NullText \/ documents[id].extractedText = 0
    THEN Answer(r, q, 400, <<"Documento não possui texto extraído">>)
    ELSE Answer(r, Show(q, {DocItem(id)}), 200, <<>>)

\* deleteDocument(req, res), up to `await deleteFile(...)`
deleteDocument(r, q0, id) ==
    LET q == [q0 EXCEPT !.body = <<id>>] IN
    IF NotOwn(id, q.userId)
    THEN Answer(r, q, 404, <<"Documento não encontrado">>)
    ELSE /\ req' = [req EXCEPT ![r] = [q EXCEPT !.pc = "unlink", !.idx = 1]]
         /\ UNCHANGED <<documents, summaries, nextId, extracting>>

\* the first position from `from` on whose id names a document of the user
\* in the store docs, 0 if there is none
NextOwn(docs, ids, from, userId) ==
    LET own == { i \in from..Len(ids) :
                   ids[i] \in DOMAIN docs /\ docs[ids[i]].userId = userId }
    IN  IF own = {} THEN 0 ELSE CHOOSE i \in own : \A j \in own : i <= j

\* deleteMultipleDocuments' `for (const id of ids)` from position `from`, on
\* the store docs: up to the next `await deleteFile(...)`, or to the response
deleteLoop(r, q, docs, from) ==
    LET i == NextOwn(docs, q.body, from, q.userId) IN
    IF i = 0
    THEN req' = [req EXCEPT ![r] = Respond(q, 200, <<>>)]
    ELSE req' = [req EXCEPT ![r] = [q EXCEPT !.pc = "unlink", !.idx = i]]

\* a body whose ids is missing or is not an array
NotAnArray == <<Undefined>>

\* deleteMultipleDocuments(req, res), up to its first await
deleteMultipleDocuments(r, q0, ids) ==
    IF ids = NotAnArray \/ ids = <<>>
    THEN Answer(r, q0, 400, <<"IDs de documentos são obrigatórios">>)
    ELSE /\ deleteLoop(r, [q0 EXCEPT !.body = ids], documents, 1)
         /\ UNCHANGED <<documents, summaries, nextId, extracting>>

\* db.deleteDocument
WithoutDocument(id) == [d \in DOMAIN documents \ {id} |-> documents[d]]

\* `await deleteFile(document.filePath).catch(console.error)` settles:
\* db.deleteDocument(id), then the response or the rest of the loop
DeleteFileSettled(r) ==
    /\ req[r].pc = "unlink"
    /\ LET q == req[r]
           docs == WithoutDocument(q.body[q.idx])
       IN  /\ documents' = docs
           /\ IF q.entry = "deleteDocument"
              THEN req' = [req EXCEPT ![r] = Respond(q, 200, <<>>)]
              ELSE deleteLoop(r, [q EXCEPT !.deletedCount = @ + 1], docs, q.idx + 1)
    /\ UNCHANGED <<envKey, summaries, nextId, users, extracting, pure, page>>

\* the lengths of the texts loadAndExtractPDF may return
ExtractedTexts == {0, 300}

\* the page counts loadAndExtractPDF may return
ExtractedPages == {3}

\* { ...doc, ...updates }
Merged(doc, updates) ==
    [f \in DOMAIN doc |-> IF f \in DOMAIN updates THEN updates[f] ELSE doc[f]]

\* an update that creates the record it does not find
UpdateDocument_Upsert(docs, id, updates) ==
    IF id \in DOMAIN docs
    THEN [docs EXCEPT ![id] = Merged(@, updates)]
    ELSE [d \in DOMAIN docs \cup {id} |->
            IF d = id
            THEN Merged([userId |-> "", status |-> "", extractedText |-> NullText,
                         pageCount |-> NullPages, errorMessage |-> NullMessage,
                         originalName |-> ""], updates)
            ELSE docs[d]]

\* db.updateDocument, on the store docs
UpdateDocument(docs, id, updates) ==
    IF id \in DOMAIN docs
    THEN [docs EXCEPT ![id] = Merged(@, updates)]
    ELSE docs

\* the updates of a successful extraction
Extracted(text, pages) ==
    [extractedText |-> text, pageCount |-> pages, status |-> "processed"]

\* the updates of a failed one
Failed(message) == [status |-> "error", errorMessage |-> message]

\* reprocessDocument(req, res): db.updateDocument, then extractTextAsync up
\* to `await loadAndExtractPDF(...)`, then the response
reprocessDocument(r, q0, id) ==
    LET q == [q0 EXCEPT !.body = <<id>>] IN
    IF NotOwn(id, q.userId)
    THEN Answer(r, q, 404, <<"Documento não encontrado">>)
    ELSE /\ documents' = UpdateDocument(documents, id,
                                        [status |-> "processing", errorMessage |-> NullMessage])
         /\ extracting' = extracting (+) SetToBag({id})
         /\ req' = [req EXCEPT ![r] = Respond(Show(q, {DocItem(id)}), 200, <<>>)]
         /\ UNCHANGED <<summaries, nextId>>

\* a failed extraction that leaves the document as it is
ExtractReject_Unmarked ==
    /\ \E id \in BagToSet(extracting) :
          /\ extracting' = extracting (-) SetToBag({id})
          /\ documents' = documents
    /\ UNCHANGED <<envKey, summaries, nextId, req, users, pure, page>>

\* a successful extraction that stores the text without the page count
ExtractResolve_NoPages ==
    /\ \E id \in BagToSet(extracting), text \in ExtractedTexts, pages \in ExtractedPages :
          /\ extracting' = extracting (-) SetToBag({id})
          /\ documents' = UpdateDocument(documents, id,
                                         [extractedText |-> text, status |-> "processed"])
    /\ UNCHANGED <<envKey, summaries, nextId, req, users, pure, page>>

\* extractTextAsync: loadAndExtractPDF resolves
ExtractResolve ==
    /\ \E id \in BagToSet(extracting), text \in ExtractedTexts, pages \in ExtractedPages :
          /\ extracting' = extracting (-) SetToBag({id})
          /\ documents' = UpdateDocument(documents, id, Extracted(text, pages))
    /\ UNCHANGED <<envKey, summaries, nextId, req, users, pure, page>>

\* extractTextAsync: loadAndExtractPDF rejects, the catch block
ExtractReject ==
    /\ \E id \in BagToSet(extracting) :
          /\ extracting' = extracting (-) SetToBag({id})
          /\ documents' = UpdateDocument(documents, id, Failed(LoadError))
    /\ UNCHANGED <<envKey, summaries, nextId, req, users, pure, page>>

\* getSummaries(req, res)
getSummaries(r, q) ==
    Answer(r, Show(q, { SumItem(i) : i \in { j \in 1..Len(summaries) :
                                                summaries[j].userId = q.userId } }),
           200, <<>>)

\* db.findSummaryById: the record's position, 0 if there is none
FindSummaryById(id) ==
    IF \E i \in 1..Len(summaries) : summaries[i].id = id
    THEN CHOOSE i \in 1..Len(summaries) :
             /\ summaries[i].id = id
             /\ \A j \in 1..(i - 1) : summaries[j].id /= id
    ELSE 0

\* getSummary(req, res): the summary, and id, name and page count of those
\* of its documents that db.findDocumentById finds
getSummary(r, q0, id) ==
    LET q == [q0 EXCEPT !.body = <<id>>]
        i == FindSummaryById(id)
    IN  IF i = 0 \/ summaries[i].userId /= q.userId
        THEN Answer(r, q, 404, <<"Summary not found">>)
        ELSE Answer(r, Show(q, {SumItem(i)} \cup
                               { DocItem(d) : d \in { summaries[i].documentIds[k] :
                                                         k \in 1..Len(summaries[i].documentIds) }
                                                   \cap DOMAIN documents }),
                    200, <<>>)

\* deleteSummary(req, res)
deleteSummary(r, q0, id) ==
    LET q == [q0 EXCEPT !.body = <<id>>]
        i == FindSummaryById(id)
    IN  IF i = 0 \/ summaries[i].userId /= q.userId
        THEN Answer(r, q, 404, <<"Summary not found">>)
        ELSE /\ summaries' = SubSeq(summaries, 1, i - 1) \o
                                SubSeq(summaries, i + 1, Len(summaries))
             /\ req' = [req EXCEPT ![r] = Respond(q, 200, <<>>)]
             /\ UNCHANGED <<documents, nextId, extracting>>

\* the Authorization headers a request may carry: none, another scheme, a
\* token that verifies (of an active user, of a deactivated one, of a user
\* that is not in the store), a token jwt.verify rejects
Headers ==
    {NoHeader, Header("Basic", "none", "")}
    \cup { Token(u) : u \in {"u1", "u2", "u3", "u9"} }
    \cup { Header("Bearer", e, "") :
             e \in {"JsonWebTokenError", "TokenExpiredError", "NotBeforeError"} }

\* the stores the routes work on
ApiDocuments ==
    [ p1 |-> [userId |-> "u1", status |-> "processed", extractedText |-> 200, pageCount |-> 2, errorMessage |-> NullMessage, originalName |-> "p.pdf"],
      p3 |-> [userId |-> "u2", status |-> "processed", extractedText |-> 200, pageCount |-> 2, errorMessage |-> NullMessage, originalName |-> "q.pdf"] ]

ApiSummaries ==
    << [OldSummary EXCEPT !.id = 1, !.userId = "u1", !.documentIds = <<"p1">>,
                          !.title = <<"Summary of ", "p.pdf">>],
       [OldSummary EXCEPT !.id = 2, !.userId = "u2", !.documentIds = <<"p3">>,
                          !.title = <<"Summary of ", "q.pdf">>] >>

\* the ids of req.params and req.body; "p0" and 9 name nothing
ApiIds == DOMAIN ApiDocuments \cup {"p0"}

ApiSummaryIds == {1, 2, 9}

ApiLists == { <<"p1", "p1">>, <<"p1", "p3">> }

\* GET /api/documents
RouteGetDocuments(r) ==
    /\ Free(r)
    /\ \E header \in Headers :
          Protected(r, "getDocuments", header,
                    getDocuments(r, Authenticated("getDocuments", header)))
    /\ UNCHANGED <<envKey, users, pure, page>>

\* GET /api/documents/:id
RouteGetDocument(r) ==
    /\ Free(r)
    /\ \E header \in Headers, id \in ApiIds :
          Protected(r, "getDocument", header,
                    getDocument(r, Authenticated("getDocument", header), id))
    /\ UNCHANGED <<envKey, users, pure, page>>

\* GET /api/documents/:id/download-text
RouteDownloadDocumentText(r) ==
    /\ Free(r)
    /\ \E header \in Headers, id \in ApiIds :
          Protected(r, "downloadDocumentText", header,
                    downloadDocumentText(r, Authenticated("downloadDocumentText", header), id))
    /\ UNCHANGED <<envKey, users, pure, page>>

\* DELETE /api/documents/:id
RouteDeleteDocument(r) ==
    /\ Free(r)
    /\ \E header \in Headers, id \in ApiIds :
          Protected(r, "deleteDocument", header,
                    deleteDocument(r, Authenticated("deleteDocument", header), id))
    /\ UNCHANGED <<envKey, users, pure, page>>

\* DELETE /api/documents
RouteDeleteMultipleDocuments(r) ==
    /\ Free(r)
    /\ \E header \in Headers, ids \in SeqsUpTo(ApiIds, MaxIds) \cup {NotAnArray} :
          Protected(r, "deleteMultipleDocuments", header,
                    deleteMultipleDocuments(r, Authenticated("deleteMultipleDocuments", header), ids))
    /\ UNCHANGED <<envKey, users, pure, page>>

\* POST /api/documents/:id/reprocess
RouteReprocessDocument(r) ==
    /\ Free(r)
    /\ \E header \in Headers, id \in ApiIds :
          Protected(r, "reprocessDocument", header,
                    reprocessDocument(r, Authenticated("reprocessDocument", header), id))
    /\ UNCHANGED <<envKey, users, pure, page>>

\* GET /api/summaries
RouteGetSummaries(r) ==
    /\ Free(r)
    /\ \E header \in Headers :
          Protected(r, "getSummaries", header,
                    getSummaries(r, Authenticated("getSummaries", header)))
    /\ UNCHANGED <<envKey, users, pure, page>>

\* GET /api/summaries/:id
RouteGetSummary(r) ==
    /\ Free(r)
    /\ \E header \in Headers, id \in ApiSummaryIds :
          Protected(r, "getSummary", header,
                    getSummary(r, Authenticated("getSummary", header), id))
    /\ UNCHANGED <<envKey, users, pure, page>>

\* DELETE /api/summaries/:id
RouteDeleteSummary(r) ==
    /\ Free(r)
    /\ \E header \in Headers, id \in ApiSummaryIds :
          Protected(r, "deleteSummary", header,
                    deleteSummary(r, Authenticated("deleteSummary", header), id))
    /\ UNCHANGED <<envKey, users, pure, page>>

\* POST /api/summaries/single, behind authenticate
RouteCreateSingleSummary(r) ==
    /\ Free(r)
    /\ \E header \in Headers, documentId \in ApiIds :
          Protected(r, "createSingle", header,
                    /\ createSingleSummary(r, Authenticated("createSingle", header),
                                           documentId, Undefined, Undefined)
                    /\ UNCHANGED <<documents, extracting>>)
    /\ UNCHANGED <<envKey, users, pure, page>>

\* POST /api/summaries/multiple, behind authenticate
RouteCreateMultipleSummary(r) ==
    /\ Free(r)
    /\ \E header \in Headers, documentIds \in ApiLists :
          Protected(r, "createMultiple", header,
                    /\ createMultipleSummary(r, Authenticated("createMultiple", header),
                                             documentIds, Undefined, Undefined)
                    /\ UNCHANGED <<documents, extracting>>)
    /\ UNCHANGED <<envKey, users, pure, page>>

\* GET /api/debug: no middleware in front of it; every document's id, name,
\* status, size, text length, error message and file path
DebugStatus(r) ==
    /\ Free(r)
    /\ \E header \in {NoHeader, Token("u1")} :
          Answer(r, Show([Arrived("debug", header) EXCEPT !.ran = TRUE],
                         { DocItem(id) : id \in DOMAIN documents }),
                 200, <<>>)
    /\ UNCHANGED <<envKey, users, pure, page>>

InitApi ==
    /\ envKey = RealKey
    /\ documents = ApiDocuments
    /\ summaries = ApiSummaries
    /\ nextId = Len(ApiSummaries)
    /\ req = [r \in {1, 2} |-> IdleReq]
    /\ users = StoredUsers
    /\ extracting = EmptyBag
    /\ pure = NoPure
    /\ page = NoPage

NextApi ==
    \/ \E r \in DOMAIN req :
          \/ RouteGetDocuments(r)
          \/ RouteGetDocument(r)
          \/ RouteDownloadDocumentText(r)
          \/ RouteDeleteDocument(r)
          \/ RouteDeleteMultipleDocuments(r)
          \/ DeleteFileSettled(r)
          \/ RouteReprocessDocument(r)
          \/ RouteGetSummaries(r)
          \/ RouteGetSummary(r)
          \/ RouteDeleteSummary(r)
          \/ RouteCreateSingleSummary(r)
          \/ RouteCreateMultipleSummary(r)
          \/ StuffResolve(r)
          \/ StuffReject(r)
          \/ MultiResolve(r)
          \/ MultiReject(r)
          \/ DebugStatus(r)
    \/ ExtractResolve
    \/ ExtractReject

SpecApi == InitApi /\ [][NextApi]_vars

----------------------------------------------------------------------------
(* Specification: the life of a document, from upload to delete *)

\* the ids uuidv4() gives to uploaded documents, in order
NewIds == SubSeq(<<"n1", "n2", "n3", "n4">>, 1, MaxUploads)

\* a document that was extracted, and one just uploaded whose extraction is
\* in flight
LifeDocuments ==
    [ s1 |-> [userId |-> "u1", status |-> "processed", extractedText |-> 200,
              pageCount |-> 2, errorMessage |-> NullMessage, originalName |-> "s.pdf"],
      s2 |-> [userId |-> "u1", status |-> "processing", extractedText |-> NullText,
              pageCount |-> NullPages, errorMessage |-> NullMessage, originalName |-> "t.pdf"] ]

\* data.documents' order: the stored ones, then the uploads as they come
DocOrder == <<"s1", "s2">> \o NewIds

LifeIds == { DocOrder[i] : i \in 1..Len(DocOrder) }

LifeLists == { <<"s2", "s1">>, <<"n1", "s2">> }

\* db.createDocument of uploadDocument / uploadMultipleDocuments
CreatedDocument(userId) ==
    [userId |-> userId, status |-> "processing", extractedText |-> NullText,
     pageCount |-> NullPages, errorMessage |-> NullMessage, originalName |-> "n.pdf"]

\* the store after n uploads of this user, the first under NewIds[first]
RECURSIVE WithUploads(_, _, _, _)
WithUploads(docs, userId, first, n) ==
    IF n = 0 THEN docs
    ELSE WithUploads([d \in DOMAIN docs \cup {NewIds[first]} |->
                        IF d = NewIds[first] THEN CreatedDocument(userId) ELSE docs[d]],
                     userId, first + 1, n - 1)

\* uploadDocument(req, res) (files = 1, or 0 for no req.file) and
\* uploadMultipleDocuments(req, res): a record and a background
\* extractTextAsync for every file, then 201
uploadDocuments(r, q, files) ==
    IF files = 0
    THEN Answer(r, q, 400, <<"Nenhum arquivo enviado">>)
    ELSE LET ids == { NewIds[i] : i \in (nextId + 1)..(nextId + files) } IN
         /\ documents' = WithUploads(documents, q.userId, nextId + 1, files)
         /\ nextId' = nextId + files
         /\ extracting' = extracting (+) SetToBag(ids)
         /\ req' = [req EXCEPT ![r] = Respond(Show([q EXCEPT !.body = SubSeq(NewIds, nextId + 1, nextId + files)],
                                                    { [kind |-> "document", id |-> id, owner |-> q.userId] : id \in ids }),
                                               201, <<>>)]
         /\ UNCHANGED summaries

\* POST /api/documents/upload
UploadDocument(r) ==
    /\ Free(r)
    /\ \E files \in 0..1 :
          /\ nextId + files <= MaxUploads
          /\ uploadDocuments(r, Authenticated("uploadDocument", Token("u1")), files)
    /\ UNCHANGED <<envKey, users, pure, page>>

\* POST /api/documents/upload-multiple
UploadMultipleDocuments(r) ==
    /\ Free(r)
    /\ \E files \in 0..2 :
          /\ nextId + files <= MaxUploads
          /\ uploadDocuments(r, Authenticated("uploadMultipleDocuments", Token("u1")), files)
    /\ UNCHANGED <<envKey, users, pure, page>>

\* POST /api/documents/:id/reprocess
ReprocessDocument(r) ==
    /\ Free(r)
    /\ \E id \in LifeIds :
          reprocessDocument(r, Authenticated("reprocessDocument", Token("u1")), id)
    /\ UNCHANGED <<envKey, users, pure, page>>

\* DELETE /api/documents/:id
DeleteDocument(r) ==
    /\ Free(r)
    /\ \E id \in LifeIds :
          deleteDocument(r, Authenticated("deleteDocument", Token("u1")), id)
    /\ UNCHANGED <<envKey, users, pure, page>>

\* DELETE /api/documents
DeleteMultipleDocuments(r) ==
    /\ Free(r)
    /\ \E ids \in LifeLists :
          deleteMultipleDocuments(r, Authenticated("deleteMultipleDocuments", Token("u1")), ids)
    /\ UNCHANGED <<envKey, users, pure, page>>

\* POST /api/debug/reprocess-stuck, up to `await import(...)`
DebugReprocessStuck(r) ==
    /\ Free(r)
    /\ req' = [req EXCEPT ![r] = [Arrived("reprocessStuck", NoHeader)
                                    EXCEPT !.ran = TRUE, !.pc = "stuck_import"]]
    /\ UNCHANGED <<envKey, documents, summaries, nextId, users, extracting, pure, page>>

\* reprocess-stuck's `for (const doc of stuckDocs)` from position `from`, on
\* the store docs: up to the next `await loadAndExtractPDF(...)`, or to the
\* response.  The file of a document exists as long as its record does; for
\* a document deleted meanwhile fs.existsSync fails and the update of the
\* catch block finds no record.
stuckLoop(r, q, docs, from) ==
    LET there == { i \in from..Len(q.body) : q.body[i] \in DOMAIN docs } IN
    IF there = {}
    THEN req' = [req EXCEPT ![r] = Respond(q, 200, <<>>)]
    ELSE req' = [req EXCEPT ![r] =
                   [q EXCEPT !.pc = "stuck_extract",
                             !.idx = CHOOSE i \in there : \A j \in there : i <= j]]

\* reprocess-stuck: the import resolves; the documents in 'processing' are
\* taken and the loop begins
StuckImported(r) ==
    /\ req[r].pc = "stuck_import"
    /\ stuckLoop(r, [req[r] EXCEPT !.body =
                        SelectSeq(DocOrder, LAMBDA id :
                            id \in DOMAIN documents /\ documents[id].status = "processing")],
                 documents, 1)
    /\ UNCHANGED <<envKey, documents, summaries, nextId, users, extracting, pure, page>>

\* what db.updateDocument returns: the record, or null
Returned(docs, id) == IF id \in DOMAIN docs THEN "record" ELSE "null"

\* reprocess-stuck: loadAndExtractPDF resolves
StuckResolve(r) ==
    /\ req[r].pc = "stuck_extract"
    /\ \E text \in ExtractedTexts, pages \in ExtractedPages :
          LET q == [req[r] EXCEPT !.calls = Append(@, Ev("resolve", "extract", req[r].idx,
                                        Returned(documents, req[r].body[req[r].idx])))]
              docs == UpdateDocument(documents, q.body[q.idx], Extracted(text, pages))
          IN  /\ documents' = docs
              /\ stuckLoop(r, q, docs, q.idx + 1)
    /\ UNCHANGED <<envKey, summaries, nextId, users, extracting, pure, page>>

\* reprocess-stuck: loadAndExtractPDF rejects, the catch block
StuckReject(r) ==
    /\ req[r].pc = "stuck_extract"
    /\ LET q == [req[r] EXCEPT !.calls = Append(@, Ev("reject", "extract", req[r].idx,
                                     Returned(documents, req[r].body[req[r].idx])))]
           docs == UpdateDocument(documents, q.body[q.idx], Failed(LoadError))
       IN  /\ documents' = docs
           /\ stuckLoop(r, q, docs, q.idx + 1)
    /\ UNCHANGED <<envKey, summaries, nextId, users, extracting, pure, page>>

InitLife ==
    /\ envKey = RealKey
    /\ documents = LifeDocuments
    /\ summaries = <<>>
    /\ nextId = 0
    /\ req = [r \in {1, 2} |-> IdleReq]
    /\ users = StoredUsers
    /\ extracting = SetToBag({"s2"})
    /\ pure = NoPure
    /\ page = NoPage

NextLife ==
    \/ \E r \in DOMAIN req :
          \/ UploadDocument(r)
          \/ UploadMultipleDocuments(r)
          \/ ReprocessDocument(r)
          \/ DeleteDocument(r)
          \/ DeleteMultipleDocuments(r)
          \/ DeleteFileSettled(r)
          \/ DebugReprocessStuck(r)
          \/ StuckImported(r)
          \/ StuckResolve(r)
          \/ StuckReject(r)
    \/ ExtractResolve
    \/ ExtractReject

SpecLife == InitLife /\ [][NextLife]_vars

\* every extraction terminates
FairLife ==
    /\ WF_vars(ExtractResolve \/ ExtractReject)
    /\ \A r \in {1, 2} : WF_vars(StuckImported(r) \/ StuckResolve(r) \/ StuckReject(r))

SpecLifeFair == SpecLife /\ FairLife

----------------------------------------------------------------------------
(* The accounts: authController.js register and updateProfile acting on      *)
(* data.users.  A user record is its email, username and isActive; an empty  *)
(* string is a field left out of the body.                                   *)

Emails == {"a@x", "c@x"}
Usernames == {"ana", "cid"}
NewUserIds == <<"v1", "v2">>

RegisteredUsers ==
    [ u1 |-> [isActive |-> TRUE,  email |-> "a@x", username |-> "ana"],
      u2 |-> [isActive |-> TRUE,  email |-> "b@x", username |-> "bia"],
      u3 |-> [isActive |-> FALSE, email |-> "d@x", username |-> "dan"] ]

findUserByEmail(us, email) == \E u \in DOMAIN us : us[u].email = email
findUserByUsername(us, username) == \E u \in DOMAIN us : us[u].username = username

\* db.createUser: push, with no check of its own
createUser(us, id, user) == us @@ (id :> user)

\* register up to `await bcrypt.genSalt(10)`
register(r, q, username, email) ==
    IF username = "" \/ email = ""
    THEN req' = [req EXCEPT ![r] = Respond(q, 400,
                   <<"All fields are required: fullName, username, email, password">>)]
    ELSE IF findUserByEmail(users, email)
    THEN req' = [req EXCEPT ![r] = Respond(q, 400, <<"Email already registered">>)]
    ELSE IF findUserByUsername(users, username)
    THEN req' = [req EXCEPT ![r] = Respond(q, 400, <<"Username already taken">>)]
    ELSE req' = [req EXCEPT ![r] = [q EXCEPT !.pc = "genSalt"]]

\* POST /api/auth/register
Register(r) ==
    /\ Free(r)
    /\ \E username \in Usernames \cup {""}, email \in Emails \cup {""} :
          register(r, [Arrived("register", NoHeader)
                         EXCEPT !.ran = TRUE, !.body = <<username, email>>],
                   username, email)
    /\ UNCHANGED <<envKey, documents, summaries, nextId, users, extracting, pure, page>>

\* bcrypt.genSalt resolves; register goes on to `await bcrypt.hash(...)`
GenSaltResolve(r) ==
    /\ req[r].pc = "genSalt"
    /\ req' = [req EXCEPT ![r].pc = "hash"]
    /\ UNCHANGED <<envKey, documents, summaries, nextId, users, extracting, pure, page>>

\* bcrypt.hash resolves; the user is created and register answers 201
HashResolve(r) ==
    /\ req[r].pc = "hash"
    /\ nextId < Len(NewUserIds)
    /\ users' = createUser(users, NewUserIds[nextId + 1],
                           [isActive |-> TRUE, email |-> req[r].body[2],
                            username |-> req[r].body[1]])
    /\ nextId' = nextId + 1
    /\ req' = [req EXCEPT ![r] = [Respond(req[r], 201, <<>>)
                                    EXCEPT !.userId = NewUserIds[nextId + 1]]]
    /\ UNCHANGED <<envKey, documents, summaries, extracting, pure, page>>

\* bcrypt rejects (a password that is not a string): the catch block
HashReject(r) ==
    /\ req[r].pc \in {"genSalt", "hash"}
    /\ req' = [req EXCEPT ![r] = Respond(req[r], 500, <<"Failed to register user">>)]
    /\ UNCHANGED <<envKey, documents, summaries, nextId, users, extracting, pure, page>>

\* updateProfile of the authenticated user; it has no await
updateProfile(r, q, email) ==
    LET user == users[q.userId] IN
    IF email /= "" /\ email /= user.email /\ findUserByEmail(users, email)
    THEN /\ req' = [req EXCEPT ![r] = Respond(q, 400, <<"Email already in use">>)]
         /\ users' = users
    ELSE /\ users' = [users EXCEPT ![q.userId] =
                         IF email /= "" THEN [@ EXCEPT !.email = email] ELSE @]
         /\ req' = [req EXCEPT ![r] = Respond(q, 200, <<>>)]

\* PUT /api/auth/profile, behind authenticate
UpdateProfile(r) ==
    /\ Free(r)
    /\ \E header \in {NoHeader} \cup { Token(u) : u \in DOMAIN users },
          email \in Emails \cup {""} :
          LET denial == authenticate(header) IN
          IF denial.status /= 0
          THEN /\ req' = [req EXCEPT ![r] =
                            Respond(Arrived("updateProfile", header),
                                    denial.status, denial.error)]
               /\ users' = users
          ELSE updateProfile(r, [Authenticated("updateProfile", header)
                                   EXCEPT !.body = <<"", email>>], email)
    /\ UNCHANGED <<envKey, documents, summaries, nextId, extracting, pure, page>>

InitUsers ==
    /\ envKey = RealKey
    /\ documents = <<>>
    /\ summaries = <<>>
    /\ nextId = 0
    /\ req = [r \in {1, 2} |-> IdleReq]
    /\ users = RegisteredUsers
    /\ extracting = EmptyBag
    /\ pure = NoPure
    /\ page = NoPage

NextUsers ==
    \E r \in DOMAIN req :
        \/ Register(r)
        \/ GenSaltResolve(r)
        \/ HashResolve(r)
        \/ HashReject(r)
        \/ UpdateProfile(r)

SpecUsers == InitUsers /\ [][NextUsers]_vars

----------------------------------------------------------------------------
(* The dashboard page of user u1 (public/js/dashboard.js) against the        *)
(* document store.  A request slot is one call of an async handler of the    *)
(* page: at "api" it awaits its API call, at "load" the getAll of            *)
(* loadDocuments.  The server's part of a call takes effect when the call    *)
(* resolves.                                                                 *)

DashDocuments ==
    [ s1 |-> [userId |-> "u1", status |-> "processed", extractedText |-> 200,
              pageCount |-> 2, errorMessage |-> NullMessage, originalName |-> "s.pdf"],
      s2 |-> [userId |-> "u1", status |-> "processed", extractedText |-> 300,
              pageCount |-> 3, errorMessage |-> NullMessage, originalName |-> "t.pdf"] ]

Listed == { page.documents[i] : i \in 1..Len(page.documents) }

\* Array.from(selectedDocuments)
ArrayFrom(set) == SelectSeq(DocOrder, LAMBDA id : id \in set)

\* data.documents of GET /api/documents for u1
GetAll(docs) ==
    SelectSeq(DocOrder, LAMBDA id : id \in DOMAIN docs /\ docs[id].userId = "u1")

\* the store after the server deleted the documents of u1 among ids
DeletedBy(docs, ids) ==
    [d \in { x \in DOMAIN docs :
                ~(docs[x].userId = "u1" /\ \E i \in 1..Len(ids) : ids[i] = x) } |-> docs[d]]

Call(entry, ids) == [New(entry) EXCEPT !.ran = TRUE, !.pc = "api", !.body = ids]

ToggleDocumentSelection ==
    /\ \E docId \in Listed :
          page' = [page EXCEPT !.selectedDocuments =
                      IF docId \in @ THEN @ \ {docId} ELSE @ \cup {docId}]
    /\ UNCHANGED <<envKey, documents, summaries, nextId, req, users, extracting, pure>>

\* the Clear Selection button is there while something is selected
ClearSelection ==
    /\ page.selectedDocuments /= {}
    /\ page' = [page EXCEPT !.selectedDocuments = {}]
    /\ UNCHANGED <<envKey, documents, summaries, nextId, req, users, extracting, pure>>

\* the Delete button of a listed document, confirmed
DashDeleteDocument(r) ==
    /\ Free(r)
    /\ \E docId \in Listed : req' = [req EXCEPT ![r] = Call("dashDeleteDocument", <<docId>>)]
    /\ UNCHANGED <<envKey, documents, summaries, nextId, users, extracting, pure, page>>

\* the Delete Selected button, confirmed
DeleteSelected(r) ==
    /\ Free(r)
    /\ page.selectedDocuments /= {}
    /\ req' = [req EXCEPT ![r] = Call("deleteSelected", ArrayFrom(page.selectedDocuments))]
    /\ UNCHANGED <<envKey, documents, summaries, nextId, users, extracting, pure, page>>

\* the Summarize Selected button, enabled from two selected documents on
SummarizeMultiple(r) ==
    /\ Free(r)
    /\ Cardinality(page.selectedDocuments) >= 2
    /\ req' = [req EXCEPT ![r] = Call("summarizeMultiple", ArrayFrom(page.selectedDocuments))]
    /\ UNCHANGED <<envKey, documents, summaries, nextId, users, extracting, pure, page>>

\* one file dropped on the upload area
HandleFileUpload(r) ==
    /\ Free(r)
    /\ req' = [req EXCEPT ![r] = Call("handleFileUpload", <<>>)]
    /\ UNCHANGED <<envKey, documents, summaries, nextId, users, extracting, pure, page>>

\* the API call of a handler resolves: the server has answered 2xx
ApiResolve(r) ==
    /\ req[r].pc = "api"
    /\ LET q == req[r] IN
       CASE q.entry = "dashDeleteDocument" ->
              /\ q.body[1] \in DOMAIN documents
              /\ documents' = DeletedBy(documents, q.body)
              /\ UNCHANGED <<nextId, page>>
         [] q.entry = "deleteSelected" ->
              /\ documents' = DeletedBy(documents, q.body)
              /\ page' = [page EXCEPT !.selectedDocuments = {}]
              /\ UNCHANGED nextId
         [] q.entry = "summarizeMultiple" ->
              /\ Len(Eligible(q.body, "u1")) >= 2
              /\ page' = [page EXCEPT !.selectedDocuments = {}]
              /\ UNCHANGED <<documents, nextId>>
         [] q.entry = "handleFileUpload" ->
              /\ nextId < MaxUploads
              /\ documents' = WithUploads(documents, "u1", nextId + 1, 1)
              /\ nextId' = nextId + 1
              /\ UNCHANGED page
    /\ req' = [req EXCEPT ![r].pc = "load"]
    /\ UNCHANGED <<envKey, summaries, users, extracting, pure>>

\* the API call rejects: the handler's catch block shows a toast
ApiReject(r) ==
    /\ req[r].pc = "api"
    /\ req' = [req EXCEPT ![r].pc = "done"]
    /\ UNCHANGED <<envKey, documents, summaries, nextId, users, extracting, pure, page>>

\* loadDocuments: getAll resolves, the list is replaced and rendered
LoadResolve(r) ==
    /\ req[r].pc = "load"
    /\ page' = [page EXCEPT !.documents = GetAll(documents)]
    /\ req' = [req EXCEPT ![r].pc = "done"]
    /\ UNCHANGED <<envKey, documents, summaries, nextId, users, extracting, pure>>

\* loadDocuments: getAll rejects, the list stays
LoadReject(r) ==
    /\ req[r].pc = "load"
    /\ req' = [req EXCEPT ![r].pc = "done"]
    /\ UNCHANGED <<envKey, documents, summaries, nextId, users, extracting, pure, page>>

\* DOMContentLoaded: empty list, empty selection, loadDashboardData awaiting
InitDashboard ==
    /\ envKey = RealKey
    /\ documents = DashDocuments
    /\ summaries = <<>>
    /\ nextId = 0
    /\ req = [r \in {1, 2, 3} |->
                IF r = 1 THEN [New("loadDashboardData") EXCEPT !.ran = TRUE, !.pc = "load"]
                ELSE IdleReq]
    /\ users = StoredUsers
    /\ extracting = EmptyBag
    /\ pure = NoPure
    /\ page = NoPage

NextDashboard ==
    \/ ToggleDocumentSelection
    \/ ClearSelection
    \/ \E r \in DOMAIN req :
          \/ DashDeleteDocument(r)
          \/ DeleteSelected(r)
          \/ SummarizeMultiple(r)
          \/ HandleFileUpload(r)
          \/ ApiResolve(r)
          \/ ApiReject(r)
          \/ LoadResolve(r)
          \/ LoadReject(r)

SpecDashboard == InitDashboard /\ [][NextDashboard]_vars

----------------------------------------------------------------------------
(* Properties *)

Requests == { req[r] : r \in DOMAIN req }

EventsOf(q, ev) == SelectSeq(q.calls, LAMBDA e : e.ev = ev)

\* the kinds of the chains and models a request has invoked, in order
InvokedKinds(q) ==
    LET inv == EventsOf(q, "invoke") IN [i \in 1..Len(inv) |-> inv[i].kind]

\* the positions in the history of the events of one sort
Positions(q, ev, kind) ==
    { i \in 1..Len(q.calls) : q.calls[i].ev = ev /\ q.calls[i].kind = kind }

Succeeded(q) == q.pc = "done" /\ q.result.ok

\* the length of the documents joined by a blank line, each under its header
\* "--- Documento <n>: <name> ---" and a newline
RECURSIVE HeadedLen(_, _)
HeadedLen(docs, n) ==
    IF n = 0 THEN 0
    ELSE HeadedLen(docs, n - 1) + (IF n > 1 THEN 2 ELSE 0)
         + 14 + Digits(n) + 2 + Len(docs[n].name) + 4 + 1 + docs[n].text

CombinedEstimate(docs) == CeilDiv(HeadedLen(docs, Len(docs)), 4)

C2_MultiRouting ==
    \A q \in Requests :
        (/\ q.entry \in {"genMultiple", "createMultiple"}
         /\ Len(q.docs) >= 2 /\ envKey \notin {Unset, Placeholder}) =>
            IF CombinedEstimate(q.docs) > 12000
            THEN /\ q.inHier
                 /\ q.calls[1].ev = "single"
                 /\ Positions(q, "invoke", "multi_stuff") = {}
                 /\ Succeeded(q) => q.result.method = "hierarchical"
            ELSE /\ ~q.inHier
                 /\ InvokedKinds(q) = <<"multi_stuff">>
                 /\ Succeeded(q) => q.result.method = "stuff"

\* C2 witness: two documents whose texts alone estimate to 12000 or less but
\* whose headed combination is above it have gone the hierarchical way
C2_Witness ==
    \E q \in Requests :
        /\ q.entry = "genMultiple" /\ Succeeded(q) /\ Len(q.docs) = 2
        /\ CeilDiv(q.docs[1].text + q.docs[2].text + 2, 4) <= 12000
        /\ CombinedEstimate(q.docs) > 12000
        /\ q.result.method = "hierarchical"

\* C3: generateMultipleSummary rejects every input of fewer than 2 documents
\* with an error and makes no model invocation for it.
C3_RejectsFewerThanTwo ==
    \A q \in Requests :
        (q.entry = "genMultiple" /\ Len(q.docs) < 2) =>
            /\ EventsOf(q, "invoke") = <<>>
            /\ EventsOf(q, "single") = <<>>
            /\ q.pc = "done" => ~q.result.ok

\* C4: for N documents of combined estimate above 12000, a successful
\* generateMultipleSummary has made exactly N generateSingleSummary calls, one
\* per document in order, then exactly one combine invocation, and returns
\* method 'hierarchical' with N as the document count.
C4_HierarchicalCalls ==
    \A q \in Requests :
        (/\ q.entry \in {"genMultiple", "createMultiple"} /\ Succeeded(q)
         /\ Len(q.docs) >= 2
         /\ CombinedEstimate(q.docs) > 12000) =>
            LET singles == EventsOf(q, "single")
                combines == Positions(q, "invoke", "combine")
            IN  /\ Len(singles) = Len(q.docs)
                /\ \A i \in 1..Len(singles) : singles[i].doc = i
                /\ Cardinality(combines) = 1
                /\ \A c \in combines, i \in 1..Len(q.calls) :
                       q.calls[i].ev = "single" => i < c
                /\ q.result.method = "hierarchical"
                /\ q.result.documentsCount = Len(q.docs)

\* C4 witness: three documents have been summarized hierarchically
C4_Witness ==
    \E q \in Requests :
        /\ q.entry = "genMultiple" /\ Succeeded(q)
        /\ Len(q.docs) = 3 /\ q.result.method = "hierarchical"
        /\ Len(EventsOf(q, "single")) = 3

NotConfiguredError == <<"OpenAI API key is not configured">>

IsCore(q) == q.entry \in {"genSingle", "genMultiple"}

IsController(q) == q.entry \in {"createSingle", "createMultiple"}

\* the request has seen a summarization chain fail
SawFailure(q) == \E i \in 1..Len(q.calls) : q.calls[i].ev = "reject" /\ q.calls[i].kind /= "probe"

\* C6: once any model invocation of a strategy has failed, the entry function
\* ends with an error whose message carries the provider's message, and
\* returns no result.
C6_FailureSurfaces ==
    \A q \in Requests :
        (q.entry \in {"genSingle", "genMultiple", "createSingle", "createMultiple"}
         /\ SawFailure(q)) =>
            LET rejects == EventsOf(q, "reject") IN
            /\ q.pc = "done"
            /\ ~q.result.ok
            /\ q.result.summary = <<>> /\ q.result.method = ""
            /\ Len(q.result.message) >= 2
            /\ q.result.message[Len(q.result.message)] = rejects[1].info
            /\ IsController(q) =>
                   q.response.status = 500 /\ q.response.error = q.result.message

\* C6 witness: a hierarchical run has failed after a first document had
\* been summarized
C6_Witness ==
    \E q \in Requests :
        /\ q.entry = "genMultiple" /\ q.pc = "done" /\ q.inHier
        /\ Len(q.indiv) >= 1 /\ SawFailure(q)

\* C7: the store changes only by one record appended in the step in which a
\* controller's strategy has completed successfully, the record carrying the
\* result's content, model, tokensUsed, processingTime and method; a
\* controller ending on a failed check or a failed model call answers
\* 400/404/503/500 and leaves the store as it was.
C7_StoreOnlyOnSuccess ==
    [][ /\ summaries' /= summaries =>
            \E r \in DOMAIN req :
                LET q == req'[r] IN
                /\ req[r].pc /= "done" /\ q.pc = "done"
                /\ IsController(q) /\ q.result.ok /\ ~SawFailure(q)
                /\ q.response.status = 201
                /\ Len(summaries') = Len(summaries) + 1
                /\ SubSeq(summaries', 1, Len(summaries)) = summaries
                /\ LET rec == summaries'[Len(summaries')] IN
                       /\ rec.content = q.result.summary
                       /\ rec.model = q.result.model
                       /\ rec.tokensUsed = q.result.tokensUsed
                       /\ rec.processingTime = q.result.processingTime
                       /\ rec.method = q.result.method
                       /\ rec.id = q.response.summaryId
        /\ \A r \in DOMAIN req :
               (req[r].pc /= "done" /\ req'[r].pc = "done" /\ IsController(req'[r])) =>
                   IF req'[r].result.ok
                   THEN /\ req'[r].response.status = 201
                        /\ Len(summaries') = Len(summaries) + 1
                   ELSE /\ req'[r].response.status \in {400, 404, 503, 500}
                        /\ SawFailure(req'[r]) => req'[r].response.status = 500
                        /\ summaries' = summaries
      ]_vars

\* C7 witness: a controller has added its record to a store that already
\* held one
C7_Witness ==
    \E q \in Requests :
        /\ q.entry = "createMultiple" /\ q.pc = "done" /\ q.response.status = 201
        /\ Len(summaries) = 2
        /\ summaries[2].method = "hierarchical"
        /\ summaries[2].content = q.result.summary

\* C8: a request invokes each chain it plans at most once, and invokes
\* nothing after the first failure.
C8_NoRetry ==
    \A q \in Requests :
        /\ \A i, j \in 1..Len(q.calls) :
               (/\ i < j
                /\ q.calls[i].ev \in {"invoke", "single"}
                /\ q.calls[j].ev = q.calls[i].ev) =>
                   <<q.calls[i].kind, q.calls[i].doc>> /= <<q.calls[j].kind, q.calls[j].doc>>
        /\ \A i, j \in 1..Len(q.calls) :
               (i < j /\ q.calls[i].ev = "reject") =>
                   q.calls[j].ev \notin {"invoke", "single"}

\* C8 witness: a hierarchical run of three documents has stopped at the
\* failure of its second
C8_Witness ==
    \E q \in Requests :
        /\ q.pc = "done" /\ q.inHier /\ Len(q.docs) = 3
        /\ Len(q.indiv) = 1 /\ SawFailure(q)
        /\ Len(EventsOf(q, "invoke")) = 2

\* the request body passes the controller's first check
BodyOk(q) == IF q.entry = "createSingle" THEN Len(q.body) = 1 ELSE Len(q.body) >= 2

\* what holds of every request while the model is not configured, the body
\* checks of the controllers aside
UnconfiguredCommon(q) ==
    /\ EventsOf(q, "invoke") = <<>>
    /\ (IsCore(q) /\ q.pc = "done") =>
           ~q.result.ok /\ q.result.message = NotConfiguredError
    /\ (q.entry = "testConnection" /\ q.pc = "done") =>
           q.probe.tested /\ ~q.probe.success

\* C9 as stated: with the model not configured, generateSingleSummary,
\* generateMultipleSummary and both controllers fail with the 'not configured'
\* error before any invocation, and testConnection reports failure.
C9_NotConfiguredAsStated ==
    envKey \in {Unset, Placeholder} =>
        \A q \in Requests :
            /\ UnconfiguredCommon(q)
            /\ (IsController(q) /\ q.pc = "done") => q.response.status = 503

\* C9 amended: with the model not configured no request makes an invocation;
\* generateSingleSummary and generateMultipleSummary fail with the 'not
\* configured' error, testConnection reports failure, and a controller
\* answers 503 'not configured' unless its body check fails first (no
\* documentId, fewer than 2 document ids), when it answers 400.
C9_NotConfigured ==
    envKey \in {Unset, Placeholder} =>
        \A q \in Requests :
            /\ UnconfiguredCommon(q)
            /\ (IsController(q) /\ q.pc = "done") =>
                   /\ q.result = NoResult
                   /\ IF BodyOk(q) THEN q.response.status = 503
                                  ELSE q.response.status = 400

\* C9 witness: under the placeholder key, a request to summarize a processed
\* document of the requester has been answered 503
C9_Witness ==
    /\ envKey = Placeholder
    /\ \E q \in Requests :
           /\ q.entry = "createSingle" /\ q.pc = "done"
           /\ q.userId = "u1" /\ q.body = <<"d1">>
           /\ q.response.status = 503

\* C10: generateSingleSummary called with empty text reports an error at
\* once and makes no model invocation.
C10_EmptyTextRejected ==
    \A q \in Requests :
        (q.entry = "genSingle" /\ q.text = 0) =>
            /\ EventsOf(q, "invoke") = <<>>
            /\ q.pc = "done" => ~q.result.ok

\* the last chain or model a request has invoked
LastInvoked(q) ==
    LET kinds == InvokedKinds(q) IN IF kinds = <<>> THEN "" ELSE kinds[Len(kinds)]

\* C11: every result has method 'stuff', 'map_reduce' or 'hierarchical', and
\* the method names what was executed: 'stuff' iff one model call was made on
\* the whole input, 'map_reduce' iff the text was chunked and given to the
\* map-reduce chain, 'hierarchical' iff every document was summarized on its
\* own and the summaries combined; the stored record carries the same method.
C11_MethodMatches ==
    \A q \in Requests :
        ((IsCore(q) \/ IsController(q)) /\ Succeeded(q)) =>
            /\ q.result.method \in {"stuff", "map_reduce", "hierarchical"}
            /\ q.result.method = "stuff" <=>
                   /\ Len(EventsOf(q, "invoke")) = 1
                   /\ LastInvoked(q) \in {"stuff", "multi_stuff"}
            /\ q.result.method = "map_reduce" <=>
                   /\ InvokedKinds(q) = <<"map_reduce">>
                   /\ q.chunks > 0
            /\ q.result.method = "hierarchical" <=>
                   /\ LastInvoked(q) = "combine"
                   /\ Len(q.indiv) = Len(q.docs)
                   /\ Len(EventsOf(q, "single")) = Len(q.docs)
            /\ IsController(q) =>
                   /\ q.response.status = 201
                   /\ \E i \in 1..Len(summaries) :
                          /\ summaries[i].id = q.response.summaryId
                          /\ summaries[i].method = q.result.method

\* C11 witness: a large document summarized through the controller is stored
\* as 'map_reduce'
C11_Witness ==
    \E q \in Requests :
        /\ q.entry = "createSingle" /\ Succeeded(q)
        /\ q.body = <<"d3">>
        /\ summaries[Len(summaries)].method = "map_reduce"

\* the length of the individual summaries joined by a blank line, each under
\* its header "--- Resumo do Documento <n>: <name> ---" and a newline
RECURSIVE HeadedSummariesLen(_, _)
HeadedSummariesLen(indiv, n) ==
    IF n = 0 THEN 0
    ELSE HeadedSummariesLen(indiv, n - 1) + (IF n > 1 THEN 2 ELSE 0)
         + 24 + Digits(n) + 2 + Len(indiv[n].name) + 4 + 1 + Len(indiv[n].summary)

\* the length of the text a successful request counts as its input
CountedInputLen(q) ==
    IF q.result.method = "hierarchical" THEN HeadedSummariesLen(q.indiv, Len(q.indiv))
    ELSE IF q.result.method = "stuff" /\ q.entry \in {"genMultiple", "createMultiple"}
    THEN HeadedLen(q.docs, Len(q.docs))
    ELSE q.text

\* C12: tokensUsed of a successful result is a non-negative integer, the
\* estimate of the input (the text for single 'stuff' and 'map_reduce', the
\* headed documents for multi-document 'stuff', the headed individual
\* summaries for 'hierarchical') plus the estimate of the final model output
\* (as the model returned it, before trimming).
C12_TokensUsed ==
    \A q \in Requests :
        ((IsCore(q) \/ IsController(q)) /\ Succeeded(q)) =>
            /\ q.result.tokensUsed \in Nat
            /\ q.result.tokensUsed =
                   CeilDiv(CountedInputLen(q), 4) + CeilDiv(Len(q.output), 4)

\* C12 witness: a hierarchical result over individual summaries that were
\* trimmed, its own output ending untrimmed
C12_Witness ==
    \E q \in Requests :
        /\ q.entry = "genMultiple" /\ Succeeded(q)
        /\ q.result.method = "hierarchical"
        /\ \E i \in 1..Len(q.indiv) : Len(q.indiv[i].summary) = 4
        /\ Len(q.output) /= Len(q.result.summary)

\* k is the least integer that is at least n / 4
IsCeilQuarter(n, k) == 4 * k >= n /\ 4 * (k - 1) < n

\* C13: estimateTokens(text) is ceil(len(text)/4) for a non-empty text and 0
\* for the empty and for a missing one, never negative; the estimates computed
\* inline by generateSingleSummary and generateMultipleSummary are the same
\* number for the same string.
C13_EstimateTokens ==
    /\ pure.est /= NotApplied =>
           /\ pure.est >= 0
           /\ IF pure.text \in {NullText, 0} THEN pure.est = 0
              ELSE IsCeilQuarter(pure.text, pure.est)
    /\ pure.single /= NotApplied =>
           /\ IsCeilQuarter(pure.text, pure.single)
           /\ pure.est /= NotApplied => pure.single = pure.est
    /\ pure.multiple /= NotApplied =>
           /\ IsCeilQuarter(pure.text, pure.multiple)
           /\ pure.est /= NotApplied => pure.multiple = pure.est

\* C13 witness: a text of 5 characters estimated at 2 tokens by all three
C13_Witness ==
    /\ pure.text = 5
    /\ pure.est = 2 /\ pure.single = 2 /\ pure.multiple = 2

\* C14: the hierarchical executor summarizes the documents in the order given,
\* each on its own text and only after the one before it has completed; the
\* individual summaries are collected in that order under the documents'
\* names; the combine call starts only after every one has completed.
C14_HierarchicalOrder ==
    \A q \in Requests :
        q.inHier =>
            LET singles == EventsOf(q, "single")
                done(i) == { p \in Positions(q, "resolve", "stuff")
                                  \cup Positions(q, "resolve", "map_reduce") :
                             q.calls[p].doc = i }
            IN  /\ Len(q.indiv) <= Len(q.docs)
                /\ \A i \in 1..Len(q.indiv) : q.indiv[i].name = q.docs[i].name
                /\ \A i \in 1..Len(singles) : singles[i].doc = i
                /\ \A p \in 1..Len(q.calls) :
                       (q.calls[p].ev = "single" /\ q.calls[p].doc > 1) =>
                           \E d \in done(q.calls[p].doc - 1) : d < p
                /\ q.pc \in {"mr_split", "mr_invoke", "stuff_invoke"} =>
                       /\ q.idx = Len(q.indiv) + 1
                       /\ q.text = q.docs[q.idx].text
                /\ \A c \in Positions(q, "invoke", "combine") :
                       /\ Len(q.indiv) = Len(q.docs)
                       /\ \A i \in 1..Len(q.docs) : \E d \in done(i) : d < c

\* C14 witness: three documents, the first two of different names, combined
C14_Witness ==
    \E q \in Requests :
        /\ q.entry = "genMultiple" /\ Succeeded(q) /\ q.inHier
        /\ Len(q.docs) = 3 /\ q.docs[1].name = "c.pdf" /\ q.docs[2].name = "a.pdf"
        /\ q.indiv[1].name = "c.pdf"

\* C15: inside the hierarchical executor every document goes through
\* generateSingleSummary's own threshold test: one whose estimate is above
\* 12000 is split and given to the map-reduce chain, any other is sent in a
\* single 'stuff' call; the result's method is 'hierarchical' all the same.
C15_ReentrantSelector ==
    \A q \in Requests :
        q.inHier =>
            /\ \A p \in 1..Len(q.calls) :
                   (q.calls[p].ev = "invoke" /\ q.calls[p].doc >= 1) =>
                       q.calls[p].kind =
                           IF CeilDiv(q.docs[q.calls[p].doc].text, 4) > 12000
                           THEN "map_reduce" ELSE "stuff"
            /\ \A i \in 1..Len(q.indiv) :
                   \E p \in 1..Len(q.calls) :
                       /\ q.calls[p].ev = "invoke" /\ q.calls[p].doc = i
            /\ Succeeded(q) => q.result.method = "hierarchical"

\* C15 witness: a hierarchical result over one document that went through
\* map-reduce and one that went in a single call
C15_Witness ==
    \E q \in Requests :
        /\ Succeeded(q) /\ q.result.method = "hierarchical"
        /\ Positions(q, "invoke", "map_reduce") /= {}
        /\ Positions(q, "invoke", "stuff") /= {}

\* the id names a document of user u that is processed and has text
OwnReady(id, u) ==
    /\ id \in DOMAIN documents
    /\ documents[id].userId = u
    /\ documents[id].status = "processed"
    /\ documents[id].extractedText > 0

\* the ids of a request body that name documents its user may summarize
ReadyIds(q) == SelectSeq(q.body, LAMBDA id : OwnReady(id, q.userId))

\* the request has ended without a model call and without a record
RefusedWith(q, status) ==
    /\ q.pc = "done" /\ q.response.status = status
    /\ q.calls = <<>>
    /\ q.response.summaryId = 0
    /\ summaries \in {<<>>, <<OldSummary>>}

\* the core has been given exactly the documents of ReadyIds, in order
GivenReady(q) ==
    /\ q.docIds = ReadyIds(q)
    /\ Len(q.docs) = Len(q.docIds)
    /\ \A i \in 1..Len(q.docs) :
           /\ q.docs[i].name = documents[q.docIds[i]].originalName
           /\ q.docs[i].text = documents[q.docIds[i]].extractedText
    /\ q.response.status = 201 =>
           \E i \in 1..Len(summaries) :
               /\ summaries[i].id = q.response.summaryId
               /\ summaries[i].documentIds = ReadyIds(q)

\* C17 as stated: createMultipleSummary answers 400 without a model call or
\* a record whenever fewer than 2 ids are supplied or fewer than 2 of them
\* name documents of the requester that are processed and have text;
\* otherwise the core is given exactly those documents, in request order.
C17_TwoDocumentMinimumAsStated ==
    \A q \in Requests :
        q.entry = "createMultiple" =>
            IF Len(q.body) < 2 \/ Len(ReadyIds(q)) < 2
            THEN RefusedWith(q, 400)
            ELSE GivenReady(q)

\* C17 amended: createMultipleSummary answers 400 when fewer than 2 ids are
\* supplied; with 2 ids or more it answers 503 when the model is not
\* configured and 400 when fewer than 2 of the ids name documents of the
\* requester that are processed and have text, in all three cases without a
\* model call or a record; otherwise the core is given exactly those
\* documents, in request order, and they are the record's documentIds.
C17_TwoDocumentMinimum ==
    \A q \in Requests :
        q.entry = "createMultiple" =>
            IF Len(q.body) < 2 THEN RefusedWith(q, 400)
            ELSE IF envKey \in {Unset, Placeholder} THEN RefusedWith(q, 503)
            ELSE IF Len(ReadyIds(q)) < 2 THEN RefusedWith(q, 400)
            ELSE GivenReady(q)

\* C17 witness: of three ids, the second another user's, the first and the
\* third have been summarized and recorded, in that order
C17_Witness ==
    \E q \in Requests :
        /\ q.entry = "createMultiple" /\ q.userId = "u1"
        /\ q.body = <<"d2", "d6", "d1">>
        /\ q.response.status = 201
        /\ summaries[Len(summaries)].documentIds = <<"d2", "d1">>

\* the document a createSingleSummary request names is in this status
NamesDocumentIn(q, statuses) ==
    /\ Len(q.body) = 1
    /\ q.body[1] \in DOMAIN documents
    /\ documents[q.body[1]].status \in statuses

\* createSingleSummary reaches the summarizer only with the text of a
\* document of the requester that is processed and has text, and no request
\* starts an extraction or changes a document
ConsumesExtractedTextOnly ==
    /\ documents = StoredDocuments
    /\ extracting = EmptyBag
    /\ \A q \in Requests :
           (q.entry = "createSingle" /\ q.calls /= <<>>) =>
               /\ Len(q.body) = 1
               /\ OwnReady(q.body[1], q.userId)
               /\ q.text = documents[q.body[1]].extractedText

\* C18 as stated: createSingleSummary invokes the summarizer only for a
\* document that exists, is the requester's, is processed and has text; for a
\* document in 'processing' or 'error' status it answers 400 with no model
\* call; no summarization request starts an extraction or changes a document.
C18_ExtractedTextOnlyAsStated ==
    /\ ConsumesExtractedTextOnly
    /\ \A q \in Requests :
           (q.entry = "createSingle" /\ NamesDocumentIn(q, {"processing", "error"})) =>
               RefusedWith(q, 400)

\* C18 amended: as stated, but the answer for a document in 'processing' or
\* 'error' status, always without a model call, is 503 when the model is not
\* configured, else 404 when the document is another user's, else 400.
C18_ExtractedTextOnly ==
    /\ ConsumesExtractedTextOnly
    /\ \A q \in Requests :
           (q.entry = "createSingle" /\ NamesDocumentIn(q, {"processing", "error"})) =>
               IF envKey \in {Unset, Placeholder} THEN RefusedWith(q, 503)
               ELSE IF documents[q.body[1]].userId /= q.userId THEN RefusedWith(q, 404)
               ELSE RefusedWith(q, 400)

\* C18 witness: the owner's request for a document whose re-extraction
\* failed, its old text still stored, has been answered 400
C18_Witness ==
    /\ envKey = RealKey
    /\ \E q \in Requests :
           /\ q.entry = "createSingle" /\ q.userId = "u1" /\ q.body = <<"d7">>
           /\ documents["d7"].extractedText > 0
           /\ q.response.status = 400 /\ q.calls = <<>>

\* the positions in the store of the records with this id
RecordsOf(id) == { i \in 1..Len(summaries) : summaries[i].id = id }

\* the request slots whose controller has answered 201
Created == { r \in DOMAIN req : IsController(req[r]) /\ req[r].response.status = 201 }

\* C16: however createSingleSummary / createMultipleSummary executions
\* interleave, every one that has completed successfully has exactly one
\* record of its own in the store, under an id no other record has, holding
\* its own result; the store holds the record that was there before and one
\* record per successful execution, none lost or overwritten.
C16_NoInterference ==
    /\ \A i, j \in 1..Len(summaries) : summaries[i].id = summaries[j].id => i = j
    /\ summaries /= <<>> /\ summaries[1] = OldSummary
    /\ Len(summaries) = 1 + Cardinality(Created)
    /\ \A r \in Created :
           LET q == req[r] IN
           /\ Cardinality(RecordsOf(q.response.summaryId)) = 1
           /\ \A i \in RecordsOf(q.response.summaryId) :
                  /\ summaries[i].userId = q.userId
                  /\ summaries[i].documentIds = q.docIds
                  /\ summaries[i].content = q.result.summary
                  /\ summaries[i].method = q.result.method
                  /\ summaries[i].tokensUsed = q.result.tokensUsed
           /\ \A r2 \in Created : r2 /= r => req[r2].response.summaryId /= q.response.summaryId

\* C16 witness: a request that arrived second and overtook a hierarchical
\* run of another user has its record before that run's
C16_Witness ==
    /\ Created = {1, 2}
    /\ req[1].userId = "u1" /\ req[1].result.method = "hierarchical"
    /\ req[2].userId = "u2" /\ req[2].entry = "createSingle"
    /\ Len(req[1].calls) > 2
    /\ req[2].response.summaryId < req[1].response.summaryId

\* the header is a Bearer token that verifies and names an active user
AuthOK(header) ==
    /\ header.scheme = "Bearer" /\ header.verify = "ok"
    /\ header.userId \in DOMAIN users
    /\ users[header.userId].isActive

\* the request is authenticated as user u
AuthenticatedAs(q, u) == AuthOK(q.auth) /\ q.auth.userId = u

\* the request of slot r arrives in this step
Arrives(r) == req[r].pc = "idle" /\ req'[r].pc /= "idle"

StoresUnchanged ==
    /\ documents' = documents /\ summaries' = summaries
    /\ nextId' = nextId /\ extracting' = extracting

\* C19: no request is told of, changes, reprocesses or deletes a document or
\* a summary of user U unless it is authenticated as U; a request of another
\* user for that id is answered 404 and leaves the stores as they were.
C19_PerUserIsolation ==
    [][ /\ \A r \in DOMAIN req : \A s \in req'[r].shown :
               AuthenticatedAs(req'[r], s.owner)
        /\ \A id \in DOMAIN documents :
               (id \notin DOMAIN documents' \/ documents'[id] /= documents[id]) =>
                   \/ \E r \in DOMAIN req :
                          /\ req'[r] /= req[r]
                          /\ AuthenticatedAs(req'[r], documents[id].userId)
                   \/ req' = req /\ extracting' /= extracting
        /\ \A i \in 1..Len(summaries) :
               (\A j \in 1..Len(summaries') : summaries'[j] /= summaries[i]) =>
                   \E r \in DOMAIN req :
                       /\ req'[r] /= req[r]
                       /\ AuthenticatedAs(req'[r], summaries[i].userId)
        /\ \A r \in DOMAIN req :
               (/\ Arrives(r) /\ AuthOK(req'[r].auth) /\ Len(req'[r].body) = 1
                /\ \/ /\ req'[r].entry \in {"getDocument", "downloadDocumentText",
                                              "deleteDocument", "reprocessDocument"}
                      /\ req'[r].body[1] \in DOMAIN documents
                      /\ documents[req'[r].body[1]].userId /= req'[r].auth.userId
                   \/ /\ req'[r].entry \in {"getSummary", "deleteSummary"}
                      /\ \E i \in 1..Len(summaries) :
                             /\ summaries[i].id = req'[r].body[1]
                             /\ summaries[i].userId /= req'[r].auth.userId) =>
                   /\ req'[r].response.status = 404
                   /\ req'[r].shown = {}
                   /\ StoresUnchanged
      ]_vars

ProtectedEntries ==
    {"getDocuments", "getDocument", "downloadDocumentText", "deleteDocument",
     "deleteMultipleDocuments", "reprocessDocument", "getSummaries", "getSummary",
     "deleteSummary", "createSingle", "createMultiple"}

\* C20: a handler of a document or summary route runs only for a request
\* whose Bearer token verifies and names an existing user with isActive
\* true, and runs as that user; any other request is answered 401, or 500
\* when jwt.verify fails unexpectedly, its handler never runs, and the stores
\* stay as they were.
C20_AuthenticationRequired ==
    [][ \A r \in DOMAIN req :
            LET q == req'[r] IN
            /\ (Arrives(r) /\ q.entry \in ProtectedEntries) =>
                   IF AuthOK(q.auth)
                   THEN q.ran /\ q.userId = q.auth.userId
                   ELSE /\ ~q.ran /\ q.pc = "done"
                        /\ q.response.status \in {401, 500}
                        /\ q.response.status = 500 <=>
                               /\ q.auth.scheme = "Bearer"
                               /\ q.auth.verify \notin {"ok", "JsonWebTokenError",
                                                          "TokenExpiredError"}
                        /\ q.calls = <<>> /\ q.shown = {} /\ q.body = <<>>
                        /\ StoresUnchanged
            /\ (q.entry \in ProtectedEntries /\ ~AuthOK(q.auth)) =>
                   (req[r].pc /= "idle" => q = req[r])
      ]_vars

\* C20 witness: the delete request of a deactivated user, its token valid,
\* has been answered 401 and the document is still there
C20_Witness ==
    \E q \in Requests :
        /\ q.entry = "deleteDocument" /\ q.auth = Token("u3")
        /\ q.pc = "done" /\ q.response.status = 401 /\ ~q.ran
        /\ DOMAIN documents = DOMAIN ApiDocuments

\* C21: testConnection never raises: unconfigured, it returns success false
\* with an error and makes no call; configured, it makes exactly one model
\* call and returns success false with the provider's error when the call
\* fails, and success true with the default model and the first 50
\* characters of the answer when it succeeds.
C21_ProbeNeverRaises ==
    \A q \in Requests :
        q.entry = "testConnection" =>
            /\ q.pc \in {"probe_invoke", "done"}
            /\ q.result = NoResult
            /\ Len(EventsOf(q, "invoke")) <= 1
            /\ InvokedKinds(q) \in {<<>>, <<"probe">>}
            /\ q.pc = "done" =>
                   /\ q.probe.tested
                   /\ IF envKey \in {Unset, Placeholder}
                      THEN /\ q.calls = <<>>
                           /\ ~q.probe.success /\ q.probe.error = "API key not configured"
                      ELSE /\ Len(EventsOf(q, "invoke")) = 1 /\ Len(q.calls) = 2
                           /\ IF q.calls[2].ev = "resolve"
                              THEN /\ q.probe.success /\ q.probe.error = ""
                                   /\ q.probe.model = "gpt-3.5-turbo"
                                   /\ Len(q.probe.response) <= 50
                                   /\ \A i \in 1..Len(q.output) :
                                          i <= 50 => /\ i <= Len(q.probe.response)
                                                     /\ q.probe.response[i] = q.output[i]
                              ELSE /\ ~q.probe.success
                                   /\ q.probe.error = q.calls[2].info
                                   /\ q.probe.error /= ""

\* C21 witness: a probe whose call failed has returned the provider's error
C21_Witness ==
    \E q \in Requests :
        /\ q.entry = "testConnection" /\ q.pc = "done"
        /\ ~q.probe.success /\ q.probe.error = "429 rate limit"
        /\ Len(EventsOf(q, "reject")) = 1

\* C22: no summarization request, through the controllers or the core,
\* invokes the probe; the status endpoint invokes it, once, only when
\* the model is configured, and reports connectionTest null otherwise.
C22_ProbeOnlyForStatus ==
    \A q \in Requests :
        /\ (IsCore(q) \/ IsController(q)) =>
               /\ Positions(q, "invoke", "probe") = {}
               /\ q.probe = NoProbe
        /\ q.entry = "getApiStatus" =>
               IF envKey \in {Unset, Placeholder}
               THEN /\ q.calls = <<>> /\ q.pc = "done"
                    /\ q.probe = NoProbe
                    /\ q.response.status = 200
               ELSE /\ InvokedKinds(q) = <<"probe">>
                    /\ q.pc = "done" => q.probe.tested /\ q.response.status = 200

\* C22 witness: the status endpoint has answered with connectionTest null
C22_Witness ==
    /\ envKey = Unset
    /\ \E q \in Requests :
           /\ q.entry = "getApiStatus" /\ q.pc = "done"
           /\ q.response.status = 200 /\ q.probe = NoProbe

\* the extractions started for a document that have not finished: the
\* extractTextAsync calls and the reprocess-stuck loops awaiting pdf-parse
InFlight(id) ==
    CopiesIn(id, extracting)
    + Cardinality({ r \in DOMAIN req :
                      /\ req[r].pc = "stuck_extract"
                      /\ req[r].body[req[r].idx] = id })

\* the record shows how an extraction ended
Marked(doc) ==
    \/ /\ doc.status = "processed"
       /\ doc.extractedText /= NullText /\ doc.pageCount /= NullPages
    \/ /\ doc.status = "error" /\ doc.errorMessage /= NullMessage

Processing(id) == id \in DOMAIN documents /\ documents[id].status = "processing"

\* C24: the step in which an extraction finishes marks its document, if it
\* still exists, 'processed' with text and page count or 'error' with an
\* error message, and starts no other extraction for it; a document with no
\* extraction in flight is not 'processing'; and, extractions terminating, a
\* document in 'processing' is eventually deleted or out of 'processing'.
C24_ExtractionEnds ==
    /\ [][ \A id \in LifeIds :
               InFlight(id)' < InFlight(id) =>
                   /\ InFlight(id)' = InFlight(id) - 1
                   /\ id \in DOMAIN documents =>
                          id \in DOMAIN documents' /\ Marked(documents'[id]) ]_vars
    /\ [](\A id \in LifeIds : Processing(id) => InFlight(id) > 0)
    /\ \A id \in LifeIds : Processing(id) ~> ~Processing(id)

\* C24 witness: the uploaded document's extraction has failed and the
\* document says so
C24_Witness ==
    /\ "s2" \in DOMAIN documents
    /\ documents["s2"].status = "error"
    /\ documents["s2"].errorMessage = LoadError
    /\ InFlight("s2") = 0

\* C25: a document whose status is 'processed' has a text and a page count.
C25_ProcessedHasText ==
    \A id \in DOMAIN documents :
        documents[id].status = "processed" =>
            /\ documents[id].extractedText /= NullText
            /\ documents[id].pageCount /= NullPages

\* C25 witness: a document uploaded in this run is processed, with an empty
\* text and its page count
C25_Witness ==
    /\ "n1" \in DOMAIN documents
    /\ documents["n1"].status = "processed"
    /\ documents["n1"].extractedText = 0
    /\ documents["n1"].pageCount = 3

\* C26: a document's errorMessage is set only while its status is 'error'.
C26_ErrorMessageOnlyOnError ==
    \A id \in DOMAIN documents :
        documents[id].errorMessage /= NullMessage => documents[id].status = "error"

\* C27: a document is 'processing' whenever an extraction started for it has
\* not finished.
C27_ProcessingWhileInFlight ==
    \A id \in DOMAIN documents :
        InFlight(id) > 0 => documents[id].status = "processing"

\* C28: an id that has left the store never comes back: a document enters
\* the store only by an upload, under an id uuidv4() had not given out, and
\* an extraction that finishes for a deleted document changes nothing.
C28_NoResurrection ==
    [][ \A id \in LifeIds :
            /\ (id \notin DOMAIN documents /\ id \in DOMAIN documents') =>
                   \E k \in (nextId + 1)..nextId' : id = NewIds[k]
            /\ (id \notin DOMAIN documents /\ InFlight(id)' < InFlight(id)) =>
                   documents' = documents ]_vars

\* C28 witness: reprocess-stuck's extraction of the uploaded document ended
\* after the document was deleted (its update found no record), and the
\* document is not in the store
C28_Witness ==
    /\ "s2" \notin DOMAIN documents
    /\ \E q \in Requests :
           /\ q.entry = "reprocessStuck" /\ q.pc = "done"
           /\ \E i \in 1..Len(q.calls) :
                  /\ q.calls[i].kind = "extract" /\ q.calls[i].info = "null"
                  /\ q.body[q.calls[i].doc] = "s2"

\* C29: no two user records share an email and no two share a username.
C29_UniqueUsers ==
    \A a, b \in DOMAIN users :
        a /= b => /\ users[a].email /= users[b].email
                  /\ users[a].username /= users[b].username

\* C30: every id in selectedDocuments is the id of a document of the
\* loaded documents list.
C30_SelectionListed == page.selectedDocuments \subseteq Listed

====
